---- MODULE Spec2Model ----
(***************************************************************************)
(* Process manager, scheduler and semaphore set of the YatSenOS teaching   *)
(* kernel (Code/0x05 .. Code/0x07 snapshots).                              *)
(*                                                                         *)
(* Every interrupt handler / syscall service runs with interrupts          *)
(* disabled, so each one is a single atomic action.  The helper operators  *)
(* take and return a record m holding the whole kernel state, which lets   *)
(* an action compose the calls a handler makes in the order the code       *)
(* makes them.  The handlers carry no check of who the caller is, so any   *)
(* process that is on the CPU, the kernel process (pid 1) included, may    *)
(* enter any of them.                                                      *)
(*                                                                         *)
(* Spec      the entry points: timer tick and the syscall services         *)
(* SpecCtx   Spec with the running program's own instructions (rip moves)  *)
(* SpecApi   Spec with ProcessManager::block / kill / wake_up called       *)
(*           directly with any pid                                         *)
(* SpecMutex the counter program's semaphore test run on this kernel       *)
(* SpecVm    the address spaces of user programs: spawn, fork, stack       *)
(*           growth on page faults, brk and exit, with the timer tick      *)
(* SpecPid   the pid generator called again and again                      *)
(* SpecSpin  the counter program's SpinLock test under any interleaving    *)
(* SpecMq    the message-queue program run on this kernel                  *)
(* SpecAlloc the user-space brk allocator under alloc and dealloc          *)
(* SpecFair  Spec with a timer that keeps ticking (weak fairness)          *)
(* SpecDinner the dining-philosophers program under any interleaving       *)
(***************************************************************************)
EXTENDS Integers, Sequences, FiniteSets, TLC

(* ------------------------------ bounds --------------------------------- *)
\* largest pid the generator may hand out (NEXT_PID is capped by guards)
MaxPid == 3
\* number of kernel entries (and computation steps) explored from boot
MaxSteps == 6
\* cap on the instruction pointer advanced by user computation
MaxRip == 1
\* largest initial value passed to new_sem
MaxSemValue == 1

(* ------------------------- program constants --------------------------- *)
KERNEL_PID == 1
FirstPid == 2
SYS_SEM == 2
SYS_FORK == 58
SYS_SPAWN == 59
SYS_EXIT == 60
SYS_WAITPID == 61
\* usize is modelled 16 bits wide (TLC integers are 32 bit); `x as usize`
\* of a negative isize wraps modulo UsizeModulus.
UsizeModulus == 65536

\* NEXT_PID is an AtomicU16: fetch_add wraps around at 2^16
PidModulus == 65536

Pids == 1..MaxPid
SemKeys == {1}
ExitCodes == {-1, 3}
SemValues == 0..MaxSemValue

AsUsize(i) == i % UsizeModulus
AsIsize(u) == IF u >= UsizeModulus \div 2 THEN u - UsizeModulus ELSE u

None == <<>>
Some(x) == <<x>>

(* ------------------------- address space layout ------------------------ *)
\* The layout of stack.rs and heap.rs scaled down: a stack slot of
\* STACK_MAX_PAGES pages (0x100000 in the source), StackSlots slots below
\* STACK_MAX (0x4000 in the source), one page mapped per growth batch check
\* (32 in the source), a kernel stack of KSTACK_DEF_PAGE pages (8 in the
\* source).  Stack addresses are page numbers; page 0 is the lowest page
\* of the lowest slot.
\* largest pid handed out, and number of steps explored, in SpecVm
MaxVmPid == 5
MaxVmSteps == 9
STACK_MAX_PAGES == 3
StackSlots == MaxVmPid + 2
growth_pages == 1
STACK_DEF_PAGE == 1
KSTACK_DEF_PAGE == 2
\* the bound of the placement loop of Stack::fork
MaxAttempts == 10

\* first page above the user stacks (the page of STACK_MAX)
StackMaxPage == StackSlots * STACK_MAX_PAGES
\* the page of STACK_INIT_BOT and of STACK_INIT_TOP
STACK_INIT_TOP_PAGE == StackMaxPage - 1
\* the kernel stack slot lies above every user address
KStackMaxPage == (StackSlots + 2) * STACK_MAX_PAGES
KSTACK_INIT_PAGE == KStackMaxPage - KSTACK_DEF_PAGE
KSTACK_INIT_TOP_PAGE == KStackMaxPage - 1

\* Heap addresses are counted in units of 4 bytes; a page holds PAGE_SIZE
\* units (1024 in the source) and the heap HEAP_PAGES pages (0x100000 in
\* the source).  HEAP_END lies 8 bytes, two units, below the end of the
\* last heap page.
PAGE_SIZE == 4
HEAP_PAGES == 2
HEAP_START == 8
HEAP_SIZE == HEAP_PAGES * PAGE_SIZE
HEAP_END == HEAP_START + HEAP_SIZE - 2

\* Page::range(start, end): the pages start .. end - 1
PageRange(start, end) == start..(end - 1)

\* Stack::kstack: the range ends below the top page, the usage counts it
KernelStack == [start |-> KSTACK_INIT_PAGE, end |-> KSTACK_INIT_TOP_PAGE,
                usage |-> KSTACK_DEF_PAGE]

\* ProcessVm::new(..).init_kernel_vm(): code is the kernel image
KernelVm == [page_table |-> 1, stack |-> KernelStack, heap |-> 1, code |-> TRUE]

\* what the boot loader mapped through the kernel's page table: the kernel
\* image and the KSTACK_DEF_PAGE pages of the kernel stack
KernelTable ==
    [pages |-> [q \in PageRange(KSTACK_INIT_PAGE, KStackMaxPage) |-> 0],
     heap |-> {}, code |-> TRUE, root |-> TRUE]

(* ------------------------------- state --------------------------------- *)
VARIABLES
    processes,    \* ProcessManager.processes: pid -> ProcessInner
    ready_queue,  \* ProcessManager.ready_queue: FIFO of pids
    wait_queue,   \* ProcessManager.wait_queue: pid -> set of waiting pids
    sems,         \* the SemaphoreSet behind each ProcessData (by data id)
    current_pid,  \* processor::get_pid()
    next_pid,     \* pid.rs NEXT_PID
    context,      \* the register snapshot the interrupt return path restores
    machine,      \* "running" | "panicked" | "halted"
    steps,        \* steps taken since boot (bounds the exploration)
    vms,          \* pid -> the ProcessVm held in ProcessInner.proc_vm
    tables,       \* page table id -> what is mapped through that table
    rsp,          \* pid -> stack pointer of its context (as a page number)
    heap_ends,    \* Heap.end: the shared AtomicU64 cells, by cell id
    user          \* the memory of the user program under study

vars == <<processes, ready_queue, wait_queue, sems, current_pid, next_pid,
          context, machine, steps, vms, tables, rsp, heap_ends, user>>

\* ProcessContext::default() followed by init_stack_frame(entry, stack_top)
EntryContext == [rax |-> 0, rip |-> 0]

\* the whole kernel state as one value
Cur == [processes |-> processes, ready_queue |-> ready_queue,
        wait_queue |-> wait_queue, sems |-> sems,
        current_pid |-> current_pid, next_pid |-> next_pid,
        context |-> context, machine |-> machine]

\* Process::new / Process::new_with_pid
NewProcessInner(data) ==
    [status |-> "Ready", context |-> EntryContext, ticks_passed |-> 0,
     exit_code |-> None, children |-> <<>>,
     proc_data |-> data, proc_vm |-> TRUE]

\* proc::init + manager::init: the kernel process is Running and current
Init ==
    /\ processes = [p \in {KERNEL_PID} |->
                      [NewProcessInner(KERNEL_PID) EXCEPT !.status = "Running"]]
    /\ ready_queue = <<>>
    /\ wait_queue = <<>>
    /\ sems = [d \in Pids |-> <<>>]
    /\ current_pid = KERNEL_PID
    /\ next_pid = FirstPid
    /\ context = EntryContext
    /\ machine = "running"
    /\ steps = 0
    /\ vms = [p \in {KERNEL_PID} |-> KernelVm]
    /\ tables = [t \in {KERNEL_PID} |-> KernelTable]
    /\ rsp = [p \in {KERNEL_PID} |-> KSTACK_INIT_TOP_PAGE]
    /\ heap_ends = [c \in {KERNEL_PID} |-> HEAP_START]
    /\ user = <<>>

(* ------------------------------ ProcessId ------------------------------ *)
\* NEXT_PID.fetch_add(1) in ProcessId::new: the value left in NEXT_PID, the
\* pid returned being the value before
FetchAdd(next) == (next + 1) % PidModulus

(* --------------------------- ProcessManager ---------------------------- *)
GetProc(m, pid) == pid \in DOMAIN m.processes

\* a faulty push_ready that puts the pid at the head of the queue
PushReadyFront(m, pid) == [m EXCEPT !.ready_queue = <<pid>> \o @]

\* ProcessManager::push_ready
PushReady(m, pid) == [m EXCEPT !.ready_queue = Append(@, pid)]

\* a faulty save_current that enqueues whatever the status is
SaveCurrentAlwaysPushes(m, ctx) ==
    LET pid == m.current_pid
    IN PushReady([m EXCEPT !.processes[pid].context = ctx], pid)

\* ProcessManager::save_current: store the snapshot; enqueue only if the
\* status is already Ready
SaveCurrent(m, ctx) ==
    LET pid == m.current_pid
        m1 == [m EXCEPT !.processes[pid].context = ctx]
    IN IF m1.processes[pid].status = "Ready" THEN PushReady(m1, pid) ELSE m1

\* a faulty restore that leaves the registers of the outgoing process
RestoreKeepsRegisters(m, pid) ==
    IF ~m.processes[pid].proc_vm
    THEN [m EXCEPT !.machine = "panicked"]
    ELSE [m EXCEPT !.processes[pid].status = "Running"]

\* ProcessInner::restore: copy the saved context out, load the page table
\* (vm() unwraps proc_vm and panics when it is None), mark Running
Restore(m, pid) ==
    LET m1 == [m EXCEPT !.context = m.processes[pid].context]
    IN IF ~m.processes[pid].proc_vm
       THEN [m1 EXCEPT !.machine = "panicked"]
       ELSE [m1 EXCEPT !.processes[pid].status = "Running"]

\* restore + processor::set_pid
Dispatch(m, pid) ==
    LET m1 == Restore(m, pid)
    IN IF m1.machine = "panicked" THEN m1 ELSE [m1 EXCEPT !.current_pid = pid]

\* ProcessManager::switch_next.  hltWakes: whether the hlt issued on the
\* idle path (with interrupts disabled) ever returns.
RECURSIVE SwitchNext(_, _)
SwitchNext(m, hltWakes) ==
    IF m.ready_queue # <<>>
    THEN LET next == Head(m.ready_queue)
             m1 == [m EXCEPT !.ready_queue = Tail(@)]
         IN IF GetProc(m1, next) /\ m1.processes[next].status = "Ready"
            THEN Dispatch(m1, next)
            ELSE SwitchNext(m1, hltWakes)
    ELSE IF m.current_pid = KERNEL_PID /\ ~hltWakes
         THEN [m EXCEPT !.machine = "halted"]
         ELSE Dispatch(m, KERNEL_PID)


\* Dropping a ProcessData releases one reference to its SemaphoreSet; the
\* set is freed with the last reference
DropData(m, d) ==
    IF d # 0 /\ \A q \in DOMAIN m.processes : m.processes[q].proc_data # d
    THEN [m EXCEPT !.sems[d] = <<>>]
    ELSE m

\* a faulty wake_up that marks the process Ready without queueing it
WakeUpForgetsQueue(m, pid, ret) ==
    IF GetProc(m, pid) /\ m.processes[pid].status = "Blocked"
    THEN LET m1 == IF ret # None
                   THEN [m EXCEPT !.processes[pid].context.rax = AsUsize(ret[1])]
                   ELSE m
         IN [m1 EXCEPT !.processes[pid].status = "Ready"]
    ELSE m

\* a faulty wake_up that does not look at the status of the target
WakeUpAnyStatus(m, pid, ret) ==
    IF GetProc(m, pid)
    THEN LET m1 == IF ret # None
                   THEN [m EXCEPT !.processes[pid].context.rax = AsUsize(ret[1])]
                   ELSE m
         IN PushReady([m1 EXCEPT !.processes[pid].status = "Ready"], pid)
    ELSE m

\* ProcessManager::wake_up: acts only on a Blocked process
WakeUp(m, pid, ret) ==
    IF GetProc(m, pid) /\ m.processes[pid].status = "Blocked"
    THEN LET m1 == IF ret # None
                   THEN [m EXCEPT !.processes[pid].context.rax = AsUsize(ret[1])]
                   ELSE m
         IN PushReady([m1 EXCEPT !.processes[pid].status = "Ready"], pid)
    ELSE m

\* the `for pid_to_wake_up in pids` loop of kill (BTreeSet order: ascending)
RECURSIVE WakeAll(_, _, _)
WakeAll(m, pids, ret) ==
    IF pids = {} THEN m
    ELSE LET p == CHOOSE x \in pids : \A y \in pids : x <= y
         IN WakeAll(WakeUp(m, p, Some(ret)), pids \ {p}, ret)

\* ProcessInner::kill
InnerKill(m, pid, ret) ==
    LET d == m.processes[pid].proc_data
        m1 == [m EXCEPT !.processes[pid].exit_code = Some(ret),
                        !.processes[pid].status = "Dead",
                        !.processes[pid].proc_data = 0,
                        !.processes[pid].proc_vm = FALSE]
    IN DropData(m1, d)

\* ProcessManager::kill
Kill(m, pid, ret) ==
    IF ~GetProc(m, pid) THEN m
    ELSE IF m.processes[pid].status = "Dead" THEN m
    ELSE LET m1 == InnerKill(m, pid, ret)
         IN IF pid \in DOMAIN m1.wait_queue
            THEN WakeAll([m1 EXCEPT !.wait_queue =
                              [q \in DOMAIN m1.wait_queue \ {pid} |-> m1.wait_queue[q]]],
                         m1.wait_queue[pid], ret)
            ELSE m1

\* ProcessManager::block
ManagerBlock(m, pid) ==
    IF GetProc(m, pid) THEN [m EXCEPT !.processes[pid].status = "Blocked"] ELSE m

\* ProcessManager::wait_pid: wait_queue.entry(pid).or_default().insert(current)
ManagerWaitPid(m, pid) ==
    LET old == IF pid \in DOMAIN m.wait_queue THEN m.wait_queue[pid] ELSE {}
    IN [m EXCEPT !.wait_queue =
           [q \in DOMAIN m.wait_queue \cup {pid} |->
               IF q = pid THEN old \cup {m.current_pid} ELSE m.wait_queue[q]]]

\* ProcessManager::get_exit_code
GetExitCode(m, pid) ==
    IF GetProc(m, pid) THEN m.processes[pid].exit_code ELSE None

(* ----------------------------- Semaphore ------------------------------- *)
\* Semaphore::new
NewSemaphore(value) == [count |-> value, wait_queue |-> <<>>]

\* a faulty wait that compares the count with 1 instead of 0
SemaphoreWaitOffByOne(sem, pid) ==
    IF sem.count <= 1
    THEN [sem EXCEPT !.wait_queue = Append(@, pid)]
    ELSE [sem EXCEPT !.count = @ - 1]

\* a faulty wait that grants without taking from the count
SemaphoreWaitKeepsCount(sem, pid) ==
    IF sem.count = 0
    THEN [sem EXCEPT !.wait_queue = Append(@, pid)]
    ELSE sem

\* Semaphore::wait: the semaphore after the call
SemaphoreWait(sem, pid) ==
    IF sem.count = 0
    THEN [sem EXCEPT !.wait_queue = Append(@, pid)]
    ELSE [sem EXCEPT !.count = @ - 1]

\* Semaphore::wait: the SemaphoreResult
SemaphoreWaitResult(sem, pid) ==
    IF sem.count = 0 THEN <<"Block", pid>> ELSE <<"Ok", 0>>

\* a faulty signal that counts up even when it hands over to a waiter
SemaphoreSignalAlsoCounts(sem) ==
    IF sem.wait_queue # <<>>
    THEN [sem EXCEPT !.wait_queue = Tail(@), !.count = @ + 1]
    ELSE [sem EXCEPT !.count = @ + 1]

\* Semaphore::signal: the semaphore after the call
SemaphoreSignal(sem) ==
    IF sem.wait_queue # <<>>
    THEN [sem EXCEPT !.wait_queue = Tail(@)]
    ELSE [sem EXCEPT !.count = @ + 1]

\* Semaphore::signal: the SemaphoreResult
SemaphoreSignalResult(sem) ==
    IF sem.wait_queue # <<>> THEN <<"WakeUp", Head(sem.wait_queue)>> ELSE <<"Ok", 0>>

\* SemaphoreSet::insert: BTreeMap::insert stores the new semaphore whether or
\* not the key was present
SetInsert(set, key, value) ==
    [k \in DOMAIN set \cup {key} |-> IF k = key THEN NewSemaphore(value) ELSE set[k]]

\* SemaphoreSet::insert: the returned bool (.is_none() of the old entry)
SetInsertResult(set, key) == key \notin DOMAIN set

\* SemaphoreSet::remove
SetRemove(set, key) == [k \in DOMAIN set \ {key} |-> set[k]]

SetRemoveResult(set, key) == key \in DOMAIN set


(* ------------------- kernel entry points (handlers) -------------------- *)
\* Each entry point is an operator from the kernel state at entry (m.context
\* is the trap frame the interrupt gate pushed) to the state at `iretq`.

\* a faulty switch that forgets pause(): the preempted process is queued
\* but keeps the status Running
SwitchPreemptKeepsRunning(m, ctx) ==
    LET pid == m.current_pid
        m1 == SaveCurrent(m, ctx)
        st == m1.processes[pid].status
    IN IF st # "Dead" /\ st # "Blocked"
       THEN [PushReady(m1, pid) EXCEPT !.processes[pid].ticks_passed = @ + 1]
       ELSE m1

\* the part of proc::switch before switch_next
SwitchPreempt(m, ctx) ==
    LET pid == m.current_pid
        m1 == SaveCurrent(m, ctx)
        st == m1.processes[pid].status
    IN IF st # "Dead" /\ st # "Blocked"
       THEN [PushReady(m1, pid) EXCEPT
                !.processes[pid].status = "Ready",
                !.processes[pid].ticks_passed = @ + 1]
       ELSE m1

\* proc::switch, called by the clock interrupt handler on every timer tick
switch(m, hltWakes) == SwitchNext(SwitchPreempt(m, m.context), hltWakes)

\* a faulty spawn that queues the pid although the load failed
ManagerSpawnQueuesFailed(m, loads) ==
    LET pid == m.next_pid
        m1 == [m EXCEPT !.next_pid = FetchAdd(@)]
    IN IF ~loads THEN PushReady(m1, pid)
       ELSE PushReady([m1 EXCEPT !.processes =
                          [q \in DOMAIN m1.processes \cup {pid} |->
                              IF q = pid THEN NewProcessInner(pid)
                              ELSE m1.processes[q]]], pid)

\* ProcessManager::spawn up to the return of the pid (spawn_kernel_thread
\* changes the manager in the same way and cannot fail to load)
ManagerSpawn(m, loads) ==
    LET pid == m.next_pid
        m1 == [m EXCEPT !.next_pid = FetchAdd(@)]
    IN IF ~loads THEN m1
       ELSE PushReady([m1 EXCEPT !.processes =
                          [q \in DOMAIN m1.processes \cup {pid} |->
                              IF q = pid THEN NewProcessInner(pid)
                              ELSE m1.processes[q]]], pid)

\* Syscall::Spawn -> spawn_process -> proc::spawn -> elf_spawn; rax := pid
spawn_process(m, loads) ==
    [ManagerSpawn(m, loads) EXCEPT !.context.rax = m.next_pid]

\* ProcessManager::fork with Process::fork and ProcessInner::fork
ManagerFork(m) ==
    LET parent == m.current_pid
        child == m.next_pid
        inner == [status |-> "Ready",
                  context |-> [m.processes[parent].context EXCEPT !.rax = 0],
                  ticks_passed |-> 0, exit_code |-> None, children |-> <<>>,
                  proc_data |-> m.processes[parent].proc_data,
                  proc_vm |-> TRUE]
        m1 == [m EXCEPT !.next_pid = FetchAdd(@),
                        !.processes[parent].children = Append(@, child),
                        !.processes[parent].context.rax = child]
    IN [m1 EXCEPT !.processes =
           [q \in DOMAIN m1.processes \cup {child} |->
               IF q = child THEN inner ELSE m1.processes[q]]]

\* sys_fork: save_current, fork, rax := child, parent Ready, push parent,
\* push child, switch_next
sys_fork(m, hltWakes) ==
    LET parent == m.current_pid
        child == m.next_pid
        m1 == ManagerFork(SaveCurrent(m, m.context))
        m2 == [m1 EXCEPT !.context.rax = child,
                         !.processes[parent].status = "Ready"]
    IN SwitchNext(PushReady(PushReady(m2, parent), child), hltWakes)

\* the data id of the SemaphoreSet the current process reaches
DataOf(m) == m.processes[m.current_pid].proc_data

\* sync::new_sem through sys_sem op 0
new_sem(m, key, value) ==
    LET d == DataOf(m)
        rax == IF SetInsertResult(m.sems[d], key) THEN 0 ELSE 1
    IN [m EXCEPT !.sems[d] = SetInsert(@, key, value), !.context.rax = rax]

\* sync::remove_sem through sys_sem op 1
remove_sem(m, key) ==
    LET d == DataOf(m)
        rax == IF SetRemoveResult(m.sems[d], key) THEN 0 ELSE 1
    IN [m EXCEPT !.sems[d] = SetRemove(@, key), !.context.rax = rax]

\* sync::sem_signal through sys_sem op 2
sem_signal(m, key) ==
    LET d == DataOf(m)
    IN IF key \notin DOMAIN m.sems[d]
       THEN [m EXCEPT !.context.rax = 1]
       ELSE LET sem == m.sems[d][key]
                res == SemaphoreSignalResult(sem)
                m1 == [m EXCEPT !.sems[d][key] = SemaphoreSignal(sem),
                                !.context.rax = 0]
            IN IF res[1] = "WakeUp" THEN WakeUp(m1, res[2], None) ELSE m1

\* save_current; current().write().block(); switch_next
BlockAndSwitch(m, hltWakes) ==
    LET m1 == SaveCurrent(m, m.context)
        m2 == [m1 EXCEPT !.processes[m.current_pid].status = "Blocked"]
    IN SwitchNext(m2, hltWakes)

\* a faulty sem_wait that returns at once whatever the count
sem_wait_returns(m, key, hltWakes) ==
    LET d == DataOf(m)
    IN IF key \notin DOMAIN m.sems[d]
       THEN [m EXCEPT !.context.rax = 1]
       ELSE [m EXCEPT !.context.rax = 0]

\* sync::sem_wait through sys_sem op 3
sem_wait(m, key, hltWakes) ==
    LET d == DataOf(m)
    IN IF key \notin DOMAIN m.sems[d]
       THEN [m EXCEPT !.context.rax = 1]
       ELSE LET sem == m.sems[d][key]
                res == SemaphoreWaitResult(sem, m.current_pid)
                m1 == [m EXCEPT !.sems[d][key] = SemaphoreWait(sem, m.current_pid)]
            IN IF res[1] = "Ok"
               THEN [m1 EXCEPT !.context.rax = 0]
               ELSE BlockAndSwitch(m1, hltWakes)

\* proc::wait_pid
wait_pid(m, pid, hltWakes) ==
    LET code == GetExitCode(m, pid)
    IN IF code # None
       THEN [m EXCEPT !.context.rax = AsUsize(code[1])]
       ELSE BlockAndSwitch(ManagerWaitPid(m, pid), hltWakes)

\* proc::still_alive
still_alive(m, pid) == GetProc(m, pid) /\ m.processes[pid].status # "Dead"

\* sys_waitpid, the service that answers without blocking: the value
\* returned to the caller
sys_waitpid(m, pid) ==
    IF ~still_alive(m, pid)
    THEN LET code == GetExitCode(m, pid)
         IN IF code # None THEN AsUsize(code[1]) ELSE 0
    ELSE UsizeModulus - 1

\* proc::exit through Syscall::Exit: kill_current then switch_next
exit(m, ret, hltWakes) == SwitchNext(Kill(m, m.current_pid, ret), hltWakes)

\* proc::process_exit: kill_current, then the caller parks in `loop { hlt }`
process_exit(m, ret) == Kill(m, m.current_pid, ret)

(* ------------------------------- actions ------------------------------- *)
\* the trap frame of `int 0x80`: the caller loaded the syscall number in rax
Trap(n) == [Cur EXCEPT !.context.rax = n]

\* a process issues syscalls or is computing only while it is on the CPU;
\* after process_exit the dead caller spins in `loop { hlt }`
OnCpu ==
    /\ machine = "running"
    /\ processes[current_pid].status = "Running"

\* the kernel state at the return of a handler, within a budget of steps
CommitKernel(m, bound) ==
    /\ steps < bound
    /\ steps' = steps + 1
    /\ processes' = m.processes
    /\ ready_queue' = m.ready_queue
    /\ wait_queue' = m.wait_queue
    /\ sems' = m.sems
    /\ current_pid' = m.current_pid
    /\ next_pid' = m.next_pid
    /\ context' = m.context
    /\ machine' = m.machine

\* a handler that does not touch any address space
CommitWithin(m, bound) ==
    /\ CommitKernel(m, bound)
    /\ UNCHANGED <<vms, tables, rsp, heap_ends, user>>

Commit(m) == CommitWithin(m, MaxSteps)

\* the timer interrupt
Tick ==
    /\ machine = "running"
    /\ \E hltWakes \in BOOLEAN : Commit(switch(Cur, hltWakes))

Spawn ==
    /\ OnCpu
    /\ next_pid <= MaxPid
    /\ \E loads \in BOOLEAN : Commit(spawn_process(Trap(SYS_SPAWN), loads))

SysFork ==
    /\ OnCpu
    /\ next_pid <= MaxPid
    /\ \E hltWakes \in BOOLEAN : Commit(sys_fork(Trap(SYS_FORK), hltWakes))

SemNew ==
    /\ OnCpu
    /\ \E key \in SemKeys, value \in SemValues :
         Commit(new_sem(Trap(SYS_SEM), key, value))

SemRemove ==
    /\ OnCpu
    /\ \E key \in SemKeys : Commit(remove_sem(Trap(SYS_SEM), key))

SemSignal ==
    /\ OnCpu
    /\ \E key \in SemKeys : Commit(sem_signal(Trap(SYS_SEM), key))

SemWait ==
    /\ OnCpu
    /\ \E key \in SemKeys, hltWakes \in BOOLEAN :
         Commit(sem_wait(Trap(SYS_SEM), key, hltWakes))

WaitPid ==
    /\ OnCpu
    /\ \E pid \in Pids, hltWakes \in BOOLEAN :
         Commit(wait_pid(Trap(SYS_WAITPID), pid, hltWakes))

Exit ==
    /\ OnCpu
    /\ \E ret \in ExitCodes, hltWakes \in BOOLEAN :
         Commit(exit(Trap(SYS_EXIT), ret, hltWakes))

\* a kernel thread returning through proc::process_exit
ProcessExit ==
    /\ OnCpu
    /\ \E ret \in ExitCodes : Commit(process_exit(Cur, ret))

Next ==
    \/ Tick
    \/ Spawn
    \/ SysFork
    \/ SemNew
    \/ SemRemove
    \/ SemSignal
    \/ SemWait
    \/ WaitPid
    \/ Exit
    \/ ProcessExit

Spec == Init /\ [][Next]_vars

\* the running program executes instructions between two kernel entries
Compute ==
    /\ OnCpu
    /\ context.rip < MaxRip
    /\ Commit([Cur EXCEPT !.context.rip = @ + 1])

\* the same kernel with the running program's own computation made visible
NextCtx ==
    \/ Next
    \/ Compute

SpecCtx == Init /\ [][NextCtx]_vars

(* ------------------------- vocabulary of the claims -------------------- *)
Range(s) == {s[i] : i \in DOMAIN s}

\* index of the first occurrence of x in s
Pos(s, x) == CHOOSE i \in DOMAIN s : s[i] = x /\ \A j \in 1..(i - 1) : s[j] # x

IsPrefix(s, t) == Len(s) <= Len(t) /\ SubSeq(t, 1, Len(s)) = s

\* how many times x occurs in s
Count(s, x) == Cardinality({i \in DOMAIN s : s[i] = x})

Known == DOMAIN processes

StatusOf(p) == processes[p].status

RunningPids == {p \in Known : StatusOf(p) = "Running"}

\* the pids that are Ready in the table and queued, in queue order
IsQueuedReady(q) == q \in Range(ready_queue) /\ q \in Known /\ StatusOf(q) = "Ready"

\* a timer tick; the first conjunct follows from Tick (proc::switch counts
\* the tick of a live process, and a process off the CPU is not Running)
TickStep ==
    /\ \/ processes'[current_pid].ticks_passed # processes[current_pid].ticks_passed
       \/ StatusOf(current_pid) # "Running"
    /\ Tick

\* a step of an entry point that ends in switch_next; in each disjunct the
\* first conjunct follows from the action or picks its blocking case
EndsInSwitchNext ==
    \/ TickStep
    \/ next_pid' # next_pid /\ SysFork
    \/ processes'[current_pid].status = "Dead" /\ Exit
    \/ processes'[current_pid].status = "Blocked" /\ (SemWait \/ WaitPid)

(* ------------------------------- C1 ------------------------------------ *)
\* what a switch_next step does to the queue when it dispatches p: no queued
\* Ready process is overtaken, the pids behind p keep their order at the
\* front of the new queue, and a process preempted by the tick is put last
FifoDispatch ==
    LET p == current_pid'
    IN machine' = "running" =>
         /\ processes'[p].status = "Running"
         /\ \A q \in Range(ready_queue) :
              IsQueuedReady(q) /\ q # p =>
                 /\ p \in Range(ready_queue)
                 /\ Pos(ready_queue, p) < Pos(ready_queue, q)
                 /\ q \in Range(ready_queue')
         /\ p \in Range(ready_queue) =>
              IsPrefix(SubSeq(ready_queue, Pos(ready_queue, p) + 1,
                              Len(ready_queue)), ready_queue')
         /\ (StatusOf(current_pid) = "Running" /\ p # current_pid /\ TickStep) =>
              /\ ready_queue' # <<>>
              /\ ready_queue'[Len(ready_queue')] = current_pid

\* C1: every switch_next dispatches the Ready process that was enqueued
\* first, the processes behind it keep their order, and a process preempted
\* by a tick goes to the tail, so none is dispatched a second time before
\* every other queued Ready process has been dispatched once.
C1_FifoRoundRobin == [][EndsInSwitchNext => FifoDispatch]_vars

\* two different processes have each been preempted by a tick while at
\* least two pids are queued: a full round of the queue has been served
C1_Witness ==
    /\ machine = "running"
    /\ Len(ready_queue) >= 2
    /\ Cardinality({p \in Known : processes[p].ticks_passed >= 1}) >= 2

(* ------------------------------- C2 ------------------------------------ *)
\* C2 as stated: between operations exactly one process is Running.
C2_ExactlyOneRunning == machine = "running" => Cardinality(RunningPids) = 1

\* C2 (amended): never two processes are Running; the current process is the
\* Running one after every tick and syscall, and no process is Running only
\* while the current one is Dead, having ended through process_exit, until
\* the next tick.
C2_AtMostOneRunning ==
    machine = "running" =>
       \/ RunningPids = {current_pid}
       \/ RunningPids = {} /\ StatusOf(current_pid) = "Dead"

\* a kernel thread has ended through process_exit and no process is Running
C2_Witness ==
    /\ machine = "running"
    /\ RunningPids = {}
    /\ StatusOf(current_pid) = "Dead"
    /\ Cardinality(Known) >= 2

(* ---------------- the manager's calls taken on their own --------------- *)
\* ProcessManager::block, ::kill and ::wake_up are public: any kernel code
\* running with the manager in reach may call them with any pid.
Block ==
    /\ machine = "running"
    /\ \E pid \in Pids : Commit(ManagerBlock(Cur, pid))

KillPid ==
    /\ machine = "running"
    /\ \E pid \in Pids, ret \in ExitCodes : Commit(Kill(Cur, pid, ret))

WakeUpPid ==
    /\ machine = "running"
    /\ \E pid \in Pids, ret \in {None} \cup {Some(e) : e \in ExitCodes} :
         Commit(WakeUp(Cur, pid, ret))

NextApi ==
    \/ Next
    \/ Block
    \/ KillPid
    \/ WakeUpPid

SpecApi == Init /\ [][NextApi]_vars

(* ------------------------------- C3 ------------------------------------ *)
\* C3: a process that is Dead stays Dead under every later operation (and
\* so is never Ready or Running again).
C3_DeadIsFinal ==
    [][\A p \in Known : StatusOf(p) = "Dead" => processes'[p].status = "Dead"]_vars

(* ------------------------------- C4 ------------------------------------ *)
\* the event p is blocked on happens in this step: a signal takes p from the
\* head of a semaphore's wait queue, or a process p waits for dies
MatchingEvent(p) ==
    \/ \E d \in Pids : \E k \in DOMAIN sems[d] \cap DOMAIN sems'[d] :
          /\ sems[d][k].wait_queue # <<>>
          /\ Head(sems[d][k].wait_queue) = p
          /\ sems'[d][k].wait_queue = Tail(sems[d][k].wait_queue)
    \/ \E b \in DOMAIN wait_queue \cap Known :
          /\ p \in wait_queue[b]
          /\ StatusOf(b) # "Dead"
          /\ processes'[b].status = "Dead"

\* C4: a Blocked process becomes Ready or Running only in a step in which
\* its matching event (semaphore signal, death of the awaited process) wakes
\* it; ticks, the idle fallback of switch_next, fork and spawn leave it
\* Blocked.
C4_OnlyWakeUpUnblocks ==
    [][\A p \in Known :
          StatusOf(p) = "Blocked" /\ processes'[p].status \in {"Ready", "Running"}
             => MatchingEvent(p)]_vars

(* ------------------------------- C5 ------------------------------------ *)
\* C5: in every semaphore of every set, a positive count implies an empty
\* wait queue, whatever initial value the semaphore was created with.
C5_PositiveCountNoWaiters ==
    \A d \in Pids : \A k \in DOMAIN sems[d] :
       sems[d][k].count > 0 => sems[d][k].wait_queue = <<>>

\* a semaphore with a positive count next to a process of the same set that
\* was Blocked on a semaphore and has been woken by a signal (its saved rax
\* still holds the number of the sem syscall it blocked in)
C5_Witness ==
    \E d \in Pids : \E k \in DOMAIN sems[d] :
       /\ sems[d][k].count > 0
       /\ \E p \in Known :
            /\ processes[p].proc_data = d
            /\ StatusOf(p) = "Ready"
            /\ processes[p].context.rax = SYS_SEM
            /\ processes[p].children = <<>>
            /\ processes[p].ticks_passed = 0

(* ------------------------------- C7 ------------------------------------ *)
\* the semaphore step of the current process on key k, seen from outside
SignalEffect(d, k) ==
    LET s == sems[d][k]
        t == sems'[d][k]
    IN IF s.wait_queue # <<>>
       THEN LET w == Head(s.wait_queue)
            IN /\ t.wait_queue = Tail(s.wait_queue)
               /\ t.count = s.count
               /\ (w \in Known /\ StatusOf(w) = "Blocked") =>
                     /\ processes'[w].status = "Ready"
                     /\ ready_queue' = Append(ready_queue, w)
       ELSE /\ t.count = s.count + 1
            /\ t.wait_queue = <<>>

\* C7: a signal on a semaphore with waiters removes the longest waiting pid
\* (waits append at the tail, signals take the head) and makes it Ready
\* without touching the count; the count goes up by one only when nobody
\* waits.
C7_SignalFifo ==
    [][/\ SemSignal =>
            \A k \in SemKeys \cap DOMAIN sems[processes[current_pid].proc_data] :
               SignalEffect(processes[current_pid].proc_data, k)
       /\ SemWait =>
            \A k \in SemKeys \cap DOMAIN sems[processes[current_pid].proc_data] :
               LET s == sems[processes[current_pid].proc_data][k]
                   t == sems'[processes[current_pid].proc_data][k]
               IN IF s.count = 0
                  THEN t.wait_queue = Append(s.wait_queue, current_pid)
                       /\ t.count = 0
                  ELSE t.wait_queue = s.wait_queue /\ t.count = s.count - 1]_vars

\* a signal has woken the first of two waiters and the second still waits
C7_Witness ==
    \E d \in Pids : \E k \in DOMAIN sems[d] :
       /\ sems[d][k].wait_queue # <<>>
       /\ sems[d][k].count = 0
       /\ \E p \in Known :
            /\ processes[p].proc_data = d
            /\ p \notin Range(sems[d][k].wait_queue)
            /\ StatusOf(p) = "Ready"
            /\ p \in Range(ready_queue)
            /\ processes[p].context.rax = SYS_SEM
            /\ processes[p].children = <<>>
            /\ processes[p].ticks_passed = 0

(* ------------------------------- C8 ------------------------------------ *)
\* the exit code b dies with in this step
DiesWith(b) == processes'[b].exit_code[1]

\* C8 (a): a wait_pid on a live process leaves the caller Blocked, out of
\* the ready queue and recorded in the wait table under that process.
WaitPidBlocks ==
    \A b \in Known, hltWakes \in BOOLEAN :
       (/\ OnCpu
        /\ StatusOf(b) # "Dead"
        /\ Commit(wait_pid(Trap(SYS_WAITPID), b, hltWakes))
        /\ machine' = "running")
       => /\ processes'[current_pid].status = "Blocked"
          /\ current_pid \notin Range(ready_queue')
          /\ b \in DOMAIN wait_queue'
          /\ current_pid \in wait_queue'[b]

\* C8 (b): when a process dies, everyone recorded as waiting for it becomes
\* Ready in the ready queue (or is dispatched at once) with the exit code in
\* the rax of the context it resumes with, and the entry leaves the table.
DeathWakesWaiters ==
    \A b \in Known :
       (StatusOf(b) # "Dead" /\ processes'[b].status = "Dead")
       => /\ b \notin DOMAIN wait_queue'
          /\ b \in DOMAIN wait_queue =>
               \A a \in wait_queue[b] :
                  /\ AsIsize(processes'[a].context.rax) = DiesWith(b)
                  /\ \/ processes'[a].status = "Ready" /\ a \in Range(ready_queue')
                     \/ /\ processes'[a].status = "Running"
                        /\ current_pid' = a
                        /\ AsIsize(context'.rax) = DiesWith(b)
                     \/ machine' # "running"

\* C8: wait_pid on a live process blocks the caller until that process is
\* killed; the kill then readies every waiter with the exit code and drops
\* the wait-table entry.
C8_WaitPidUntilKill == [][WaitPidBlocks /\ DeathWakesWaiters]_vars

(* ------------------------------- C9 ------------------------------------ *)
IsSuffix(s, t) == Len(s) <= Len(t) /\ SubSeq(t, Len(t) - Len(s) + 1, Len(t)) = s

\* the tick seen from outside: the queue after the tick is what switch_next
\* left of the old queue with the preempted pid appended once (or of the old
\* queue alone when the current process is Dead or Blocked)
TickEffect ==
    LET c == current_pid
    IN IF StatusOf(c) \notin {"Dead", "Blocked"}
       THEN /\ processes'[c].ticks_passed = processes[c].ticks_passed + 1
            /\ IsSuffix(ready_queue', Append(ready_queue, c))
            /\ machine' = "running" =>
                 \/ processes'[c].status = "Ready" /\ Count(ready_queue', c) = Count(ready_queue, c) + 1
                 \/ processes'[c].status = "Running" /\ current_pid' = c
                      /\ ready_queue' = <<>>
       ELSE /\ processes'[c].ticks_passed = processes[c].ticks_passed
            /\ processes'[c].status = StatusOf(c)
            /\ IsSuffix(ready_queue', ready_queue)

WokenByDeath(p) ==
    \E b \in DOMAIN wait_queue \cap Known :
       /\ p \in wait_queue[b]
       /\ StatusOf(b) # "Dead"
       /\ processes'[b].status = "Dead"
       /\ processes'[p].context.rax = AsUsize(DiesWith(b))

\* what a step may do to the saved context of process p
SavedContextStep(p) ==
    LET old == processes[p].context
        new == processes'[p].context
    IN IF p = current_pid
       THEN \* suspension: the registers at kernel entry are captured; the
            \* syscall number is in rax, or fork stamps the child's pid
            new # old =>
               /\ new.rip = context.rip
               /\ \/ new.rax \in {context.rax, SYS_SEM, SYS_WAITPID}
                  \/ new.rax = next_pid /\ next_pid' = next_pid + 1
       ELSE /\ new.rip = old.rip
            /\ new.rax # old.rax => WokenByDeath(p)

\* what a step gives a process it creates
CreatedContext(p) ==
    \/ processes'[p].context = EntryContext
    \/ /\ processes'[current_pid].children # processes[current_pid].children
       /\ processes'[p].context = [rax |-> 0, rip |-> context.rip]

\* the registers the interrupt return path loads
LiveContextStep ==
    machine' = "running" =>
       IF current_pid' # current_pid \/ EndsInSwitchNext
       THEN context' = processes'[current_pid'].context
       ELSE context'.rip \in {context.rip, context.rip + 1}

\* C10: every queued Ready process has a saved context and an address space
\* to resume in; a dispatch loads exactly the saved context, which is the
\* register set captured when the process was last suspended (or its entry
\* context) and is changed in between only in rax, by wake_up's or fork's
\* return value.
C10_ContextPreserved ==
    [][/\ \A p \in Known : SavedContextStep(p)
       /\ \A p \in DOMAIN processes' \ Known : CreatedContext(p)
       /\ LiveContextStep
       /\ \A p \in Known : IsQueuedReady(p) => processes[p].proc_vm]_vars

\* a process that computed, was preempted and has been dispatched again with
\* its registers, while another preempted process keeps a different saved
\* instruction pointer
C10_Witness ==
    /\ machine = "running"
    /\ StatusOf(current_pid) = "Running"
    /\ processes[current_pid].ticks_passed >= 1
    /\ context.rip = 1
    /\ \E q \in Known \ {current_pid} :
         /\ processes[q].ticks_passed >= 1
         /\ IsQueuedReady(q)
         /\ processes[q].context.rip = 0

(* -------- the counter program's semaphore test (app/counter) ----------- *)
\* test_semaphore: the program creates semaphore SEM_KEY with value 1,
\* forks its children, and every child runs do_counter_inc_sem (wait,
\* inc_counter, signal, repeated) and exits; the parent removes the
\* semaphore once all children are gone.  A program's position is its rip:
\* the call and its trap are one step, and the trap frame holds the address
\* of the statement after the call.
MaxChildren == 2
MaxRounds == 2
MaxMutexSteps == 24

\* SEM_KEY of the program (0x1234)
SEM_KEY == 4660
AppPid == FirstPid
IsChild(p) == p > AppPid

\* the trap frame of a call whose return address is rip
Frame(n, rip) == [Cur EXCEPT !.context = [rax |-> n, rip |-> rip]]

CommitMutex(m) == CommitWithin(m, MaxMutexSteps)

\* the registers process p continues with
Regs(p) ==
    IF p = current_pid /\ StatusOf(p) = "Running" THEN context
    ELSE processes[p].context

\* the child is between its wait being granted and its signal
Holds(p) ==
    /\ IsChild(p)
    /\ StatusOf(p) \in {"Running", "Ready"}
    /\ Regs(p).rip >= 2
    /\ Regs(p).rip % 2 = 0

MutexTick ==
    /\ machine = "running"
    /\ \E hltWakes \in BOOLEAN : CommitMutex(switch(Cur, hltWakes))

\* the kernel starts the program
AppStart ==
    /\ OnCpu
    /\ current_pid = KERNEL_PID
    /\ next_pid = FirstPid
    /\ CommitMutex(spawn_process(Trap(SYS_SPAWN), TRUE))

\* SEM.init(1)
AppInit ==
    /\ OnCpu
    /\ current_pid = AppPid
    /\ context.rip = 0
    /\ CommitMutex(new_sem(Frame(SYS_SEM, 1), SEM_KEY, 1))

\* the fork loop: parent and child both return to position 1
AppFork ==
    /\ OnCpu
    /\ current_pid = AppPid
    /\ context.rip = 1
    /\ next_pid <= AppPid + MaxChildren
    /\ \E hltWakes \in BOOLEAN : CommitMutex(sys_fork(Frame(SYS_FORK, 1), hltWakes))

\* SEM.wait() of round (rip + 1) / 2
AppWait ==
    /\ OnCpu
    /\ IsChild(current_pid)
    /\ context.rip % 2 = 1
    /\ context.rip < 2 * MaxRounds
    /\ \E hltWakes \in BOOLEAN :
         CommitMutex(sem_wait(Frame(SYS_SEM, context.rip + 1), SEM_KEY, hltWakes))

\* SEM.signal() after inc_counter
AppSignal ==
    /\ OnCpu
    /\ IsChild(current_pid)
    /\ context.rip >= 2
    /\ context.rip % 2 = 0
    /\ CommitMutex(sem_signal(Frame(SYS_SEM, context.rip + 1), SEM_KEY))

\* sys_exit(0) of a child that has done its rounds
AppExit ==
    /\ OnCpu
    /\ IsChild(current_pid)
    /\ context.rip = 2 * MaxRounds + 1
    /\ \E hltWakes \in BOOLEAN :
         CommitMutex(exit(Frame(SYS_EXIT, context.rip), 0, hltWakes))

\* SEM.remove() once sys_wait_pid has seen every child dead
AppRemove ==
    /\ OnCpu
    /\ current_pid = AppPid
    /\ context.rip = 1
    /\ next_pid > AppPid + MaxChildren
    /\ \A p \in Known : IsChild(p) => StatusOf(p) = "Dead"
    /\ CommitMutex(remove_sem(Frame(SYS_SEM, 2), SEM_KEY))

NextMutex ==
    \/ MutexTick
    \/ AppStart
    \/ AppInit
    \/ AppFork
    \/ AppWait
    \/ AppSignal
    \/ AppExit
    \/ AppRemove

SpecMutex == Init /\ [][NextMutex]_vars

(* ------------------------------- C6 ------------------------------------ *)
\* C6: with the semaphore created at 1 and every process signalling only
\* after its own wait was granted, at most one process is between a granted
\* wait and its signal.
C6_AtMostOneGrant == Cardinality({p \in Known : Holds(p)}) <= 1

\* the hand-over: a child that was Blocked holds the semaphore after a
\* signal woke it, and the signalling child has left its critical section
C6_Witness ==
    \E p \in Known, q \in Known :
       /\ Holds(p)
       /\ processes[p].context.rax = SYS_SEM
       /\ StatusOf(p) = "Ready"
       /\ IsChild(q)
       /\ q # p
       /\ Regs(q).rip = 3


(* ------------------------------- C11 ----------------------------------- *)
\* C11: in every state every process has proc_data and proc_vm both present
\* or both absent, and they are absent exactly when its status is Dead.
C11_DataVmIffAlive ==
    \A p \in Known :
       /\ (processes[p].proc_data # 0) = processes[p].proc_vm
       /\ (processes[p].proc_data = 0) = (StatusOf(p) = "Dead")

(* ------------------------------- C12 ----------------------------------- *)
\* C12: kill on a pid that is not in the table or on a Dead process changes
\* nothing, and no step replaces an exit code that has been recorded (an
\* exit code is set at most once).
C12_KillOnce ==
    [][/\ \A pid \in Pids, ret \in ExitCodes :
             (pid \notin Known \/ StatusOf(pid) = "Dead") => Kill(Cur, pid, ret) = Cur
       /\ \A p \in Known :
             processes[p].exit_code # None =>
                processes'[p].exit_code = processes[p].exit_code]_vars

(* ------------------------------- C13 ----------------------------------- *)
WakeRets == {None} \cup {Some(e) : e \in ExitCodes}

\* C13: wake_up of a pid that is unknown or not Blocked returns the manager
\* unchanged; wake_up of a Blocked process makes it Ready, appends its pid
\* to the ready queue once, and changes nothing else but the return value it
\* was asked to store.
C13_WakeUpOnlyBlocked ==
    \A pid \in Pids, ret \in WakeRets :
       LET m == WakeUp(Cur, pid, ret)
       IN IF pid \in Known /\ StatusOf(pid) = "Blocked"
          THEN /\ m.processes[pid].status = "Ready"
               /\ m.ready_queue = Append(ready_queue, pid)
               /\ Count(m.ready_queue, pid) = Count(ready_queue, pid) + 1
               /\ m.processes[pid].context.rax =
                     (IF ret = None THEN processes[pid].context.rax
                      ELSE AsUsize(ret[1]))
               /\ [m EXCEPT !.processes[pid].status = "Blocked",
                            !.processes[pid].context.rax = processes[pid].context.rax,
                            !.ready_queue = ready_queue] = Cur
          ELSE m = Cur

\* wake_up has acted on a Blocked process: it is Ready and last in the ready
\* queue with a stored return value although no process has died, while
\* another process is Blocked, on which a wake_up of a Ready pid is a no-op
C13_Witness ==
    /\ \A q \in Known : StatusOf(q) # "Dead"
    /\ \E q \in Known : StatusOf(q) = "Blocked"
    /\ \E p \in Known :
          /\ StatusOf(p) = "Ready"
          /\ ready_queue # <<>>
          /\ ready_queue[Len(ready_queue)] = p
          /\ processes[p].context.rax = AsUsize(3)
          /\ processes[p].ticks_passed = 0

(* ======================================================================= *)
(* Address spaces: ProcessVm, Stack, Heap and the page table they share    *)
(* ======================================================================= *)
\* the frame allocator can still hand out this many frames when a stack
\* growth or a brk starts
FrameBudgets == {1, STACK_MAX_PAGES + 1}
\* what a user program stores on its stack
Marker == 1

\* the whole address-space state as one value
CurVm == [vms |-> vms, tables |-> tables, rsp |-> rsp, ends |-> heap_ends]

(* ------------------------------- Stack --------------------------------- *)
\* addr & STACK_START_MASK, for the page of addr
SlotOf(page) == page \div STACK_MAX_PAGES

\* Stack::is_on_stack
IsOnStack(stack, page) == SlotOf(page) = SlotOf(stack.start)

\* The mapping loops (Stack::map_pages, the grow branch of Heap::brk) take
\* the pages from, from + 1, ... in turn and stop at the first page for
\* which allocate_frame or map_to fails: the number of pages they map.
MappedCount(mapped, from, count, frames) ==
    CHOOSE k \in 0..count :
       /\ \A j \in 0..(k - 1) : (from + j) \notin mapped /\ j < frames
       /\ k = count \/ (from + k) \in mapped \/ k >= frames

\* the page table after mapping k fresh frames from page `from` upwards
MapRange(pages, from, k) ==
    [q \in DOMAIN pages \cup PageRange(from, from + k) |->
        IF q \in DOMAIN pages THEN pages[q] ELSE 0]

\* a faulty grow_stack that maps a batch below the stack on every fault
GrowStackAlways(stack, pages, page, frames) ==
    IF stack.usage + growth_pages > STACK_MAX_PAGES
    THEN [ok |-> FALSE, stack |-> stack, pages |-> pages]
    ELSE LET new_start_page == IF page < stack.start THEN page
                               ELSE stack.start - growth_pages
             pages_to_map_count == stack.start - new_start_page
         IN [ok |-> TRUE,
             stack |-> [stack EXCEPT !.start = new_start_page,
                                     !.usage = @ + pages_to_map_count],
             pages |-> [q \in DOMAIN pages \cup PageRange(new_start_page, stack.start) |->
                          IF q \in DOMAIN pages THEN pages[q] ELSE 0]]

\* Stack::grow_stack
GrowStack(stack, pages, page, frames) ==
    IF stack.usage + growth_pages > STACK_MAX_PAGES
    THEN [ok |-> FALSE, stack |-> stack, pages |-> pages]
    ELSE LET new_start_page == IF page < stack.start THEN page ELSE stack.start
             pages_to_map_count == stack.start - new_start_page
             k == MappedCount(DOMAIN pages, new_start_page, pages_to_map_count, frames)
         IN IF pages_to_map_count = 0
            THEN [ok |-> TRUE, stack |-> stack, pages |-> pages]
            ELSE IF k = pages_to_map_count
            THEN [ok |-> TRUE,
                  stack |-> [stack EXCEPT !.start = new_start_page,
                                          !.usage = @ + pages_to_map_count],
                  pages |-> MapRange(pages, new_start_page, k)]
            ELSE [ok |-> FALSE, stack |-> stack,
                  pages |-> MapRange(pages, new_start_page, k)]

\* Stack::handle_page_fault
StackHandlePageFault(stack, pages, page, frames) ==
    IF ~IsOnStack(stack, page)
    THEN [ok |-> FALSE, stack |-> stack, pages |-> pages]
    ELSE GrowStack(stack, pages, page, frames)

\* a faulty placement that takes the first candidate range unchecked
FindStackRangeUnchecked(usage, pages, offset, attempts) ==
    LET top_page == StackMaxPage - offset * STACK_MAX_PAGES
    IN IF top_page < STACK_MAX_PAGES THEN None
       ELSE Some([start |-> top_page - usage + 1, end |-> top_page + 1])

\* the placement loop of Stack::fork: the first range of `usage` pages
\* ending at the page of STACK_MAX - offset * STACK_MAX_SIZE that is free in
\* the page table; None when the loop panics
RECURSIVE FindStackRange(_, _, _, _)
FindStackRange(usage, pages, offset, attempts) ==
    IF attempts >= MaxAttempts THEN None
    ELSE LET top_page == StackMaxPage - offset * STACK_MAX_PAGES
             start_page == top_page - usage + 1
         IN IF top_page < STACK_MAX_PAGES THEN None
            ELSE IF \A q \in PageRange(start_page, top_page + 1) : q \notin DOMAIN pages
            THEN Some([start |-> start_page, end |-> top_page + 1])
            ELSE FindStackRange(usage, pages, offset + 1, attempts + 1)

\* Stack::clone_range: `size` pages from cur_page upwards are copied to
\* dest_page upwards
CloneRange(pages, cur_page, dest_page, size) ==
    [q \in DOMAIN pages |->
        IF q \in PageRange(dest_page, dest_page + size)
        THEN pages[cur_page + (q - dest_page)]
        ELSE pages[q]]

\* Stack::fork: the child's stack and the page table after mapping and
\* copying, or None when the placement panics
StackFork(stack, pages, stack_offset_count) ==
    LET r == FindStackRange(stack.usage, pages, stack_offset_count + 1, 0)
    IN IF r = None THEN None
       ELSE LET new_stack_range == r[1]
                mapped == MapRange(pages, new_stack_range.start, stack.usage)
            IN Some([stack |-> [start |-> new_stack_range.start,
                                end |-> new_stack_range.end,
                                usage |-> stack.usage],
                     pages |-> CloneRange(mapped, stack.start,
                                          new_stack_range.start, stack.usage)])

\* Stack::clean_up: unmaps the range page by page and gives up at the first
\* page that is not mapped
StackCleanUp(stack, pages) ==
    LET range == PageRange(stack.start, stack.end)
        missing == {q \in range : q \notin DOMAIN pages}
        first == CHOOSE q \in missing : \A x \in missing : q <= x
        gone == IF missing = {} THEN range ELSE {q \in range : q < first}
    IN IF stack.usage = 0
       THEN [ok |-> TRUE, pages |-> pages]
       ELSE [ok |-> missing = {},
             pages |-> [q \in DOMAIN pages \ gone |-> pages[q]]]

(* -------------------------------- Heap --------------------------------- *)
HeapPage(addr) == addr \div PAGE_SIZE

\* (addr + PAGE_SIZE - 1) & !(PAGE_SIZE - 1)
AlignUp(addr) == ((addr + PAGE_SIZE - 1) \div PAGE_SIZE) * PAGE_SIZE

\* a faulty brk that gives the whole heap back without resetting the end
HeapBrkKeepsEnd(new_end, end, heap, frames) ==
    IF new_end = None THEN [ret |-> Some(end), end |-> end, heap |-> heap]
    ELSE IF new_end[1] < HEAP_START \/ new_end[1] > HEAP_END
    THEN [ret |-> None, end |-> end, heap |-> heap]
    ELSE IF new_end[1] <= end
    THEN [ret |-> new_end, end |-> end,
          heap |-> heap \ (HeapPage(AlignUp(new_end[1]))..HeapPage(AlignUp(end) - 1))]
    ELSE LET from == HeapPage(AlignUp(end))
             count == HeapPage(AlignUp(new_end[1]) - 1) - from + 1
         IN IF MappedCount(heap, from, count, frames) = count
            THEN [ret |-> new_end, end |-> new_end[1],
                  heap |-> heap \cup PageRange(from, from + count)]
            ELSE [ret |-> None, end |-> end, heap |-> heap]

\* a faulty brk whose shrink branch moves the end without unmapping
HeapBrkShrinkKeepsPages(new_end, end, heap, frames) ==
    IF new_end = None THEN [ret |-> Some(end), end |-> end, heap |-> heap]
    ELSE LET target_end == new_end[1]
             target_end_aligned == AlignUp(target_end)
             current_end_aligned == AlignUp(end)
             from == HeapPage(current_end_aligned)
             count == HeapPage(target_end_aligned - 1) - from + 1
             k == MappedCount(heap, from, count, frames)
         IN IF target_end < HEAP_START \/ target_end > HEAP_END
            THEN [ret |-> None, end |-> end, heap |-> heap]
            ELSE IF target_end = HEAP_START
            THEN [ret |-> Some(HEAP_START), end |-> HEAP_START,
                  heap |-> IF end > HEAP_START
                           THEN heap \ (HeapPage(HEAP_START)..HeapPage(current_end_aligned - 1))
                           ELSE heap]
            ELSE IF target_end_aligned < current_end_aligned
            THEN [ret |-> Some(target_end), end |-> target_end, heap |-> heap]
            ELSE IF target_end_aligned > current_end_aligned
            THEN IF k = count
                 THEN [ret |-> Some(target_end), end |-> target_end,
                       heap |-> heap \cup PageRange(from, from + count)]
                 ELSE [ret |-> None, end |-> end,
                       heap |-> heap \cup PageRange(from, from + k)]
            ELSE [ret |-> Some(target_end), end |-> target_end, heap |-> heap]

\* Heap::brk: the returned Option, the end and the mapped heap pages
HeapBrk(new_end, end, heap, frames) ==
    IF new_end = None THEN [ret |-> Some(end), end |-> end, heap |-> heap]
    ELSE LET target_end == new_end[1]
             target_end_aligned == AlignUp(target_end)
             current_end_aligned == AlignUp(end)
             from == HeapPage(current_end_aligned)
             count == HeapPage(target_end_aligned - 1) - from + 1
             k == MappedCount(heap, from, count, frames)
         IN IF target_end < HEAP_START \/ target_end > HEAP_END
            THEN [ret |-> None, end |-> end, heap |-> heap]
            ELSE IF target_end = HEAP_START
            THEN [ret |-> Some(HEAP_START), end |-> HEAP_START,
                  heap |-> IF end > HEAP_START
                           THEN heap \ (HeapPage(HEAP_START)..HeapPage(current_end_aligned - 1))
                           ELSE heap]
            ELSE IF target_end_aligned < current_end_aligned
            THEN [ret |-> Some(target_end), end |-> target_end,
                  heap |-> heap \ (HeapPage(target_end_aligned)..HeapPage(current_end_aligned - 1))]
            ELSE IF target_end_aligned > current_end_aligned
            THEN IF k = count
                 THEN [ret |-> Some(target_end), end |-> target_end,
                       heap |-> heap \cup PageRange(from, from + count)]
                 ELSE [ret |-> None, end |-> end,
                       heap |-> heap \cup PageRange(from, from + k)]
            ELSE [ret |-> Some(target_end), end |-> target_end, heap |-> heap]

\* a faulty Heap::fork that gives the child an end of its own
HeapForkOwnEnd(ends, heap, child) ==
    [heap |-> child,
     ends |-> [c \in DOMAIN ends \cup {child} |->
                 IF c = child THEN ends[heap] ELSE ends[c]]]

\* Heap::fork: end.clone() of the Arc, the same cell in parent and child
HeapFork(ends, heap, child) == [heap |-> heap, ends |-> ends]

\* Heap::clean_up
HeapCleanUp(end, heap) ==
    IF end - HEAP_START = 0
    THEN [end |-> end, heap |-> heap]
    ELSE [end |-> HEAP_START,
          heap |-> heap \ (HeapPage(HEAP_START)..HeapPage(end - 1))]

(* ------------------------------ ProcessVm ------------------------------ *)
\* PageTableContext::using_count: the ProcessVm values holding the table
UsingCount(v, t) == Cardinality({p \in DOMAIN v.vms : v.vms[p].page_table = t})

\* a faulty clean_up that frees the shared parts whatever the count is
VmCleanUpIgnoresCount(table, end, vm, using_count) ==
    LET s == StackCleanUp(vm.stack, table.pages)
        h == HeapCleanUp(end, table.heap)
        t1 == [table EXCEPT !.pages = s.pages]
    IN IF ~s.ok THEN [table |-> t1, end |-> end]
       ELSE [table |-> [t1 EXCEPT !.heap = h.heap,
                                  !.code = IF vm.code THEN FALSE ELSE @,
                                  !.root = FALSE],
             end |-> h.end]

\* ProcessVm::clean_up, run by Drop: the stack always; the heap, the code
\* ranges recorded in this ProcessVm and the root frame only when this is
\* the last holder of the page table.  `end` is the value of the cell
\* behind this ProcessVm's heap; the result gives the table and that cell.
VmCleanUp(table, end, vm, using_count) ==
    LET s == StackCleanUp(vm.stack, table.pages)
        h == HeapCleanUp(end, table.heap)
        t1 == [table EXCEPT !.pages = s.pages]
    IN IF ~s.ok THEN [table |-> t1, end |-> end]
       ELSE IF using_count = 1
       THEN [table |-> [t1 EXCEPT !.heap = h.heap,
                                  !.code = IF vm.code THEN FALSE ELSE @,
                                  !.root = FALSE],
             end |-> h.end]
       ELSE [table |-> t1, end |-> end]

\* ProcessInner::kill sets proc_vm to None, which drops the ProcessVm
DropVm(v, pid) ==
    IF pid \notin DOMAIN v.vms THEN v
    ELSE LET vm == v.vms[pid]
             t == vm.page_table
             r == VmCleanUp(v.tables[t], v.ends[vm.heap], vm, UsingCount(v, t))
         IN [v EXCEPT !.tables[t] = r.table,
                      !.ends[vm.heap] = r.end,
                      !.vms = [q \in DOMAIN v.vms \ {pid} |-> v.vms[q]]]

\* ProcessVm::init_proc_stack: one page below STACK_MAX - pid * STACK_MAX_SIZE
InitProcStack(pid) ==
    LET range_start == StackMaxPage - pid * STACK_MAX_PAGES - STACK_DEF_PAGE
    IN [start |-> range_start, end |-> range_start + STACK_DEF_PAGE,
        usage |-> STACK_DEF_PAGE]

\* ProcessManager::spawn on the memory side: a page table cloned from the
\* kernel's, load_elf (the code, and Stack::init mapping the page of
\* STACK_INIT_BOT), then alloc_init_stack; rsp is the stack top
SpawnVm(v, pid) ==
    LET stack == InitProcStack(pid)
        loaded == MapRange(<<>>, STACK_INIT_TOP_PAGE, STACK_DEF_PAGE)
        table == [pages |-> MapRange(loaded, stack.start, STACK_DEF_PAGE),
                  heap |-> {}, code |-> TRUE, root |-> TRUE]
        vm == [page_table |-> pid, stack |-> stack, heap |-> pid, code |-> TRUE]
    IN [vms |-> [q \in DOMAIN v.vms \cup {pid} |->
                    IF q = pid THEN vm ELSE v.vms[q]],
        tables |-> [t \in DOMAIN v.tables \cup {pid} |->
                    IF t = pid THEN table ELSE v.tables[t]],
        rsp |-> [q \in DOMAIN v.rsp \cup {pid} |->
                    IF q = pid THEN stack.end - 1 ELSE v.rsp[q]],
        ends |-> [c \in DOMAIN v.ends \cup {pid} |->
                    IF c = pid THEN HEAP_START ELSE v.ends[c]]]

\* a faulty fork that leaves the child's stack pointer at its stack base
ForkVmRspAtBase(v, parent, child, stack_offset_count) ==
    LET pvm == v.vms[parent]
        t == pvm.page_table
        r == StackFork(pvm.stack, v.tables[t].pages, stack_offset_count)
        h == HeapFork(v.ends, pvm.heap, child)
        child_vm == [page_table |-> t, stack |-> r[1].stack, heap |-> h.heap,
                     code |-> FALSE]
    IN IF r = None THEN None
       ELSE Some([vms |-> [q \in DOMAIN v.vms \cup {child} |->
                             IF q = child THEN child_vm ELSE v.vms[q]],
                  tables |-> [v.tables EXCEPT ![t].pages = r[1].pages],
                  ends |-> h.ends,
                  rsp |-> [q \in DOMAIN v.rsp \cup {child} |->
                             IF q = child THEN r[1].stack.start
                             ELSE v.rsp[q]]])

\* ProcessInner::fork with ProcessVm::fork on the memory side: the page
\* table and the heap are shared, the stack is placed and copied, no code
\* range is recorded, and the child's rsp keeps its offset from the stack
\* start; None when Stack::fork panics
ForkVm(v, parent, child, stack_offset_count) ==
    LET pvm == v.vms[parent]
        t == pvm.page_table
        r == StackFork(pvm.stack, v.tables[t].pages, stack_offset_count)
        h == HeapFork(v.ends, pvm.heap, child)
        child_vm == [page_table |-> t, stack |-> r[1].stack, heap |-> h.heap,
                     code |-> FALSE]
    IN IF r = None THEN None
       ELSE Some([vms |-> [q \in DOMAIN v.vms \cup {child} |->
                             IF q = child THEN child_vm ELSE v.vms[q]],
                  tables |-> [v.tables EXCEPT ![t].pages = r[1].pages],
                  ends |-> h.ends,
                  rsp |-> [q \in DOMAIN v.rsp \cup {child} |->
                             IF q = child
                             THEN r[1].stack.start + (v.rsp[parent] - pvm.stack.start)
                             ELSE v.rsp[q]]])

\* ProcessManager::handle_page_fault on the current process (a protection
\* violation is refused before the stack is looked at)
HandlePageFault(v, pid, page, frames, protection) ==
    LET vm == v.vms[pid]
        t == vm.page_table
        r == StackHandlePageFault(vm.stack, v.tables[t].pages, page, frames)
    IN IF protection THEN [ok |-> FALSE, v |-> v]
       ELSE [ok |-> r.ok,
             v |-> [v EXCEPT !.vms[pid].stack = r.stack,
                             !.tables[t].pages = r.pages]]

\* ProcessVm::brk on the current process
VmBrkOp(v, pid, addr, frames) ==
    LET t == v.vms[pid].page_table
        c == v.vms[pid].heap
        r == HeapBrk(addr, v.ends[c], v.tables[t].heap, frames)
    IN [ret |-> r.ret,
        v |-> [v EXCEPT !.ends[c] = r.end, !.tables[t].heap = r.heap]]

(* ------------------------- SpecVm: the actions ------------------------- *)
\* the addresses a program may fault on: every page below STACK_MAX
FaultPages == 0..(StackMaxPage - 1)
\* the heap ends a program may ask for: around the base, and from the
\* first page boundary up to the end of the last heap page
BrkTargets ==
    ((HEAP_START - 1)..(HEAP_START + 1))
       \cup ((HEAP_START + PAGE_SIZE)..(HEAP_START + HEAP_SIZE))
\* the arguments a program may pass to brk
BrkArgs == {None} \cup {Some(a) : a \in BrkTargets}

CommitVm(m, v) ==
    /\ CommitKernel(m, MaxVmSteps)
    /\ vms' = v.vms
    /\ tables' = v.tables
    /\ rsp' = v.rsp
    /\ heap_ends' = v.ends
    /\ UNCHANGED user

\* a user program is on the CPU (the kernel process runs no user code: it
\* takes no fork, brk or exit syscall and its stack is mapped at boot)
UserOnCpu ==
    /\ OnCpu
    /\ current_pid # KERNEL_PID
    /\ current_pid \in DOMAIN vms

\* the timer interrupt
VmTick ==
    /\ machine = "running"
    /\ \E hltWakes \in BOOLEAN : CommitVm(switch(Cur, hltWakes), CurVm)

\* Syscall::Spawn with the address space it builds
VmSpawn ==
    /\ OnCpu
    /\ next_pid <= MaxVmPid
    /\ \E loads \in BOOLEAN :
         CommitVm(spawn_process(Trap(SYS_SPAWN), loads),
                  IF loads THEN SpawnVm(CurVm, next_pid) ELSE CurVm)

\* Syscall::Fork with the address space of the child; a panic of Stack::fork
\* stops the kernel
VmFork ==
    /\ UserOnCpu
    /\ next_pid <= MaxVmPid
    /\ \E hltWakes \in BOOLEAN :
         LET r == ForkVm(CurVm, current_pid, next_pid,
                         Len(processes[current_pid].children))
         IN IF r = None
            THEN CommitVm([Cur EXCEPT !.machine = "panicked"], CurVm)
            ELSE CommitVm(sys_fork(Trap(SYS_FORK), hltWakes), r[1])

\* Syscall::Exit: kill drops the ProcessVm of the caller
VmExit ==
    /\ UserOnCpu
    /\ \E hltWakes \in BOOLEAN :
         CommitVm(exit(Trap(SYS_EXIT), 0, hltWakes), DropVm(CurVm, current_pid))

\* the page fault exception: a fault that is not handled is fatal
VmPageFault ==
    /\ UserOnCpu
    /\ \E protection \in BOOLEAN :
         \E page \in IF protection THEN {STACK_INIT_TOP_PAGE} ELSE FaultPages,
            frames \in IF protection THEN {1} ELSE FrameBudgets :
            LET r == HandlePageFault(CurVm, current_pid, page, frames, protection)
            IN CommitVm(IF r.ok THEN Cur ELSE [Cur EXCEPT !.machine = "panicked"], r.v)

\* the brk syscall
VmBrk ==
    /\ UserOnCpu
    /\ \E addr \in BrkArgs, frames \in FrameBudgets :
         CommitVm(Cur, VmBrkOp(CurVm, current_pid, addr, frames).v)

\* the running program moves its stack pointer down inside its stack
VmPush ==
    /\ UserOnCpu
    /\ rsp[current_pid] > vms[current_pid].stack.start
    /\ CommitVm(Cur, [CurVm EXCEPT !.rsp[current_pid] = @ - 1])

\* the running program stores the marker at its stack pointer
VmStore ==
    /\ UserOnCpu
    /\ LET t == vms[current_pid].page_table
       IN /\ rsp[current_pid] \in DOMAIN tables[t].pages
          /\ tables[t].pages[rsp[current_pid]] # Marker
          /\ CommitVm(Cur, [CurVm EXCEPT !.tables[t].pages[rsp[current_pid]] = Marker])

NextVm ==
    \/ VmTick
    \/ VmSpawn
    \/ VmFork
    \/ VmExit
    \/ VmPageFault
    \/ VmBrk
    \/ VmPush
    \/ VmStore

SpecVm == Init /\ [][NextVm]_vars

(* ----------------------- vocabulary of the VM claims ------------------- *)
\* the processes that hold an address space
Live == DOMAIN vms

TableOf(p) == vms[p].page_table

\* the heap end a live process sees
EndOf(p) == heap_ends[vms[p].heap]

StackRange(p) == PageRange(vms[p].stack.start, vms[p].stack.end)

SlotsOf(p) == {SlotOf(q) : q \in StackRange(p)}

\* the heap pages of [HEAP_START, end)
HeapPagesBelow(end) ==
    IF end > HEAP_START THEN HeapPage(HEAP_START)..HeapPage(end - 1) ELSE {}

\* f without the keys in gone
Without(f, gone) == [q \in DOMAIN f \ gone |-> f[q]]

(* ------------------------------- C14 ----------------------------------- *)
\* C14: when the running program forks, the child's stack holds page for
\* page what the parent's stack holds, the child's stack pointer is as far
\* above the child's stack start as the parent's is above its own (so what
\* the parent stored at its stack pointer is read at the child's), the
\* child's saved rax is 0 and the parent's saved rax is the child's pid.
C14_ForkCopiesStack ==
    (UserOnCpu /\ next_pid <= MaxVmPid) =>
       LET parent == current_pid
           child == next_pid
           t == TableOf(parent)
           old == tables[t].pages
           r == ForkVm(CurVm, parent, child, Len(processes[parent].children))
       IN r # None =>
          LET v == r[1]
              new == v.tables[t].pages
              pstack == vms[parent].stack
              cstack == v.vms[child].stack
          IN /\ cstack.usage = pstack.usage
             /\ cstack.end - cstack.start = cstack.usage
             /\ \A i \in 0..(pstack.usage - 1) :
                   /\ (cstack.start + i) \in DOMAIN new
                   /\ new[cstack.start + i] = old[pstack.start + i]
             /\ \A q \in DOMAIN old : new[q] = old[q]
             /\ v.rsp[child] - cstack.start = rsp[parent] - pstack.start
             /\ new[v.rsp[child]] = old[rsp[parent]]
             /\ v.rsp[parent] = rsp[parent]
             /\ \A hltWakes \in BOOLEAN :
                   LET m == sys_fork(Trap(SYS_FORK), hltWakes)
                   IN /\ m.processes[child].context.rax = 0
                      /\ m.processes[parent].context.rax = child

\* a forked child that has never run reads the marker at its stack pointer,
\* which is not at its stack start; its rax is 0 and its parent's saved rax
\* is its pid
C14_Witness ==
    \E c \in Live, p \in Live :
       /\ Count(processes[p].children, c) = 1
       /\ processes[c].ticks_passed = 0
       /\ StatusOf(c) = "Ready"
       /\ rsp[c] # vms[c].stack.start
       /\ tables[TableOf(c)].pages[rsp[c]] = Marker
       /\ processes[c].context.rax = 0
       /\ StatusOf(p) = "Ready"
       /\ processes[p].context.rax = c

(* ------------------------------- C15 ----------------------------------- *)
\* C15: with a parent and one forked child holding the page table, the
\* child's death unmaps the child's stack and nothing else (heap, heap end,
\* code and root stay); the parent's death after it unmaps the parent's
\* stack, the heap, the code, and frees the root frame.
C15_ChildThenParent ==
    \A parent \in Live, child \in Live :
       ( /\ parent # child
         /\ TableOf(parent) = TableOf(child)
         /\ vms[parent].code
         /\ ~vms[child].code
         /\ UsingCount(CurVm, TableOf(parent)) = 2 ) =>
       LET t == TableOf(parent)
           v1 == DropVm(CurVm, child)
           v2 == DropVm(v1, parent)
       IN /\ v1.tables[t] = [tables[t] EXCEPT !.pages = Without(@, StackRange(child))]
          /\ UsingCount(v1, t) = 1
          /\ DOMAIN v2.tables[t].pages \cap (StackRange(parent) \cup StackRange(child)) = {}
          /\ v1.ends = heap_ends
          /\ v2.tables[t].heap \cap HeapPagesBelow(EndOf(parent)) = {}
          /\ v2.ends[vms[parent].heap] = HEAP_START
          /\ ~v2.tables[t].code
          /\ ~v2.tables[t].root

\* the child of the scenario has died and the parent, now the only holder,
\* still has its heap pages, its code and its root
C15_Witness ==
    \E parent \in Live :
       LET t == TableOf(parent)
       IN /\ parent # KERNEL_PID
          /\ vms[parent].code
          /\ UsingCount(CurVm, t) = 1
          /\ Len(processes[parent].children) = 1
          /\ StatusOf(processes[parent].children[1]) = "Dead"
          /\ tables[t].heap # {}
          /\ EndOf(parent) > HEAP_START
          /\ tables[t].code
          /\ tables[t].root

(* ------------------------------- C16 ----------------------------------- *)
\* C16: whichever holder of a shared page table dies while another holder
\* lives, the heap, the heap end, the code and the root stay as they are;
\* the death of the only holder left unmaps every heap page below the heap
\* end; and a page table no live process holds has no code mapped and its
\* root frame freed.
C16_LastSharerFreesAll ==
    /\ \A p \in Live :
          LET t == TableOf(p)
              after == DropVm(CurVm, p).tables[t]
          IN /\ UsingCount(CurVm, t) >= 2 =>
                   /\ after.heap = tables[t].heap
                   /\ DropVm(CurVm, p).ends = heap_ends
                   /\ after.code = tables[t].code
                   /\ after.root = tables[t].root
             /\ UsingCount(CurVm, t) = 1 =>
                   after.heap \cap HeapPagesBelow(EndOf(p)) = {}
    /\ \A t \in DOMAIN tables :
          UsingCount(CurVm, t) = 0 => ~tables[t].code /\ ~tables[t].root

C18_OneSlotEach ==
    /\ \A p \in Live : Cardinality(SlotsOf(p)) <= 1
    /\ \A p \in Live, q \in Live : p # q => SlotsOf(p) \cap SlotsOf(q) = {}

C20_StackWithinMax ==
    \A p \in Live \ {KERNEL_PID} :
       /\ vms[p].stack.usage <= STACK_MAX_PAGES
       /\ Cardinality(StackRange(p) \cap DOMAIN tables[TableOf(p)].pages)
             <= STACK_MAX_PAGES

(* ------------------------------- C21 ----------------------------------- *)
\* C21: whatever page the running program faults on and whatever heap end
\* it asks brk for, with whatever number of frames left, a stack growth
\* that is refused and a brk that returns None leave the address spaces as
\* they were: same mapped pages, same stack range and usage, same heap end.
C21_FailedGrowthRollsBack ==
    UserOnCpu =>
       /\ \A page \in FaultPages, frames \in FrameBudgets :
             LET r == HandlePageFault(CurVm, current_pid, page, frames, FALSE)
             IN ~r.ok => r.v = CurVm
       /\ \A addr \in BrkArgs, frames \in FrameBudgets :
             LET r == VmBrkOp(CurVm, current_pid, addr, frames)
             IN r.ret = None => r.v = CurVm

(* ------------------------------- C22 ----------------------------------- *)
\* a heap end the bounds check of brk lets through
InBounds(x) == HEAP_START <= x /\ x <= HEAP_END

PageAligned(x) == x % PAGE_SIZE = 0

C23_BrkRejectsOutside ==
    UserOnCpu =>
       \A t \in BrkTargets :
          LET r == VmBrkOp(CurVm, current_pid, Some(t), HEAP_PAGES)
              inside == HEAP_START <= t /\ t < HEAP_START + HEAP_SIZE
          IN /\ (r.ret = None) = ~inside
             /\ ~inside => r.v = CurVm

(* ------------------------------- C24 ----------------------------------- *)
\* C24: whenever the running program shares its page table with another
\* live process (fork made them), both read the same end with brk(None);
\* after any brk of the running program the other reads the end that brk
\* left; and the death of either of the two leaves the end the other reads
\* and the mapped heap pages as they were.
C24_ForkSharesHeap ==
    UserOnCpu =>
       \A q \in Live \ {current_pid} :
          TableOf(q) = TableOf(current_pid) =>
             LET p == current_pid
                 t == TableOf(p)
             IN /\ VmBrkOp(CurVm, q, None, 1).ret = VmBrkOp(CurVm, p, None, 1).ret
                /\ \A addr \in BrkArgs, frames \in FrameBudgets :
                      LET r == VmBrkOp(CurVm, p, addr, frames)
                          seen == VmBrkOp(r.v, q, None, 1).ret
                      IN /\ seen = VmBrkOp(r.v, p, None, 1).ret
                         /\ (addr # None /\ r.ret # None) => seen = addr
                /\ LET d == DropVm(CurVm, p)
                   IN /\ VmBrkOp(d, q, None, 1).ret = Some(EndOf(q))
                      /\ d.tables[t].heap = tables[t].heap
                /\ LET d == DropVm(CurVm, q)
                   IN /\ VmBrkOp(d, p, None, 1).ret = Some(EndOf(p))
                      /\ d.tables[t].heap = tables[t].heap

\* a forked child is running beside its live parent, and the heap they
\* share has been grown
C24_Witness ==
    /\ UserOnCpu
    /\ ~vms[current_pid].code
    /\ \E p \in Live :
          /\ Count(processes[p].children, current_pid) = 1
          /\ vms[p].code
          /\ EndOf(p) > HEAP_START
          /\ EndOf(current_pid) = EndOf(p)
          /\ tables[TableOf(p)].heap # {}

(* ======================================================================= *)
(* SpecPid: the pid generator on its own, over the whole 16-bit range      *)
(* ======================================================================= *)
MaxPidCalls == PidModulus + 1

\* ProcessId::new(): the pid handed out and the number of pids handed out
\* so far are kept in `user`
ProcessIdNew ==
    /\ steps < MaxPidCalls
    /\ steps' = steps + 1
    /\ next_pid' = FetchAdd(next_pid)
    /\ user' = [pid |-> next_pid, issued |-> steps + 1]
    /\ UNCHANGED <<processes, ready_queue, wait_queue, sems, current_pid,
                   context, machine, vms, tables, rsp, heap_ends>>

NextPid == ProcessIdNew

SpecPid == Init /\ [][NextPid]_vars

(* ------------------------------- C25 ----------------------------------- *)
\* C25: the pid the generator hands out is never 1, the kernel's pid, and
\* is never a pid it handed out before (the pids come in a cycle, so the
\* first pid to come twice is the first one handed out).
C25_PidsFreshNeverKernel ==
    user # <<>> =>
       /\ user.pid # KERNEL_PID
       /\ user.issued > 1 => user.pid # FirstPid

(* ------------------------------- C26 ----------------------------------- *)
\* C26: whenever the running user process waits for a pid that is not in the
\* process table, the blocking wait_pid leaves the wait table as it is and
\* the caller running, and the value sys_waitpid answers with differs from
\* the value it answers with for any exit code of a process that has
\* exited (0 among them).
C26_UnknownPidIsNoOp ==
    (OnCpu /\ current_pid # KERNEL_PID) =>
       \A pid \in Pids \ Known :
          /\ \A hltWakes \in BOOLEAN :
                LET m == wait_pid(Trap(SYS_WAITPID), pid, hltWakes)
                IN /\ m.wait_queue = wait_queue
                   /\ m.processes[current_pid].status # "Blocked"
                   /\ m.current_pid = current_pid
          /\ \A code \in ExitCodes \cup {0} :
                sys_waitpid(Cur, pid) # AsUsize(code)

(* ------------------------------- C27 ----------------------------------- *)
\* the pids handed out so far that are not in the process table
Burnt == {pid \in Pids : FirstPid <= pid /\ pid < next_pid} \ Known

\* C27: whenever a process can spawn, a spawn whose ELF load fails returns
\* the fresh pid and changes nothing else of the manager but the pid
\* counter, so the pid is in no table and no queue; a spawn whose load
\* succeeds returns the fresh pid with its process in the table, Ready, and
\* in the ready queue exactly once, behind what was queued.  And a pid
\* whose load failed is never in the process table (so never Dead), never
\* in the ready queue and never the running pid.
C27_SpawnLoadFailure ==
    /\ (OnCpu /\ next_pid <= MaxPid) =>
          LET failed == spawn_process(Trap(SYS_SPAWN), FALSE)
              loaded == spawn_process(Trap(SYS_SPAWN), TRUE)
              frame == Trap(SYS_SPAWN)
          IN /\ failed = [frame EXCEPT !.next_pid = next_pid + 1,
                                       !.context.rax = next_pid]
             /\ loaded.context.rax = next_pid
             /\ next_pid \in DOMAIN loaded.processes
             /\ loaded.processes[next_pid].status = "Ready"
             /\ loaded.ready_queue = Append(ready_queue, next_pid)
             /\ Count(loaded.ready_queue, next_pid) = 1
             /\ \A q \in Known : loaded.processes[q] = processes[q]
    /\ \A pid \in Burnt :
          /\ Count(ready_queue, pid) = 0
          /\ current_pid # pid

\* a spawn has failed to load and a later one has loaded: the first pid is
\* in no table and no queue, the second is Ready and queued once
C27_Witness ==
    \E pid \in Burnt :
       /\ pid + 1 \in Known
       /\ StatusOf(pid + 1) = "Ready"
       /\ Count(ready_queue, pid + 1) = 1
       /\ context.rax = pid + 1

(* ======================================================================= *)
(* The counter program (0x06 app counter): test_spin forks THREAD_COUNT    *)
(* children that share the parent's memory, each adding to COUNTER inside  *)
(* SPIN_LOCK.  `user` holds the memory of the program: the statics and     *)
(* each process's position and locals.  The timer may preempt a process    *)
(* between any two steps, so any process that can step may be the next.    *)
(* ======================================================================= *)
\* the kernel's variables, which the user programs below leave alone
kernel_vars == <<processes, ready_queue, wait_queue, sems, current_pid,
                 next_pid, context, machine, steps, vms, tables, rsp,
                 heap_ends>>

\* THREAD_COUNT (8 in the source) and the 100 rounds of do_counter_inc_spin
THREAD_COUNT == 3
Increments == 2

\* a faulty compare_exchange that stores without comparing
compare_exchange_blind(bolt, current, new) == [ok |-> TRUE, bolt |-> new]

\* AtomicBool::compare_exchange(current, new): one atomic step
compare_exchange(bolt, current, new) ==
    IF bolt = current THEN [ok |-> TRUE, bolt |-> new]
    ELSE [ok |-> FALSE, bolt |-> bolt]

\* the children forked so far
Children == DOMAIN user.child

\* test_spin: COUNTER = 0, pids = [0; THREAD_COUNT]
TestSpin ==
    /\ user = <<>>
    /\ user' = [bolt |-> FALSE, COUNTER |-> 0,
                main |-> [pc |-> "fork", i |-> 0],
                child |-> <<>>]
    /\ UNCHANGED kernel_vars

\* sys_fork in the first loop: the child starts do_counter_inc_spin
SpinFork ==
    /\ user # <<>> /\ user.main.pc = "fork"
    /\ LET i == user.main.i
       IN user' = [user EXCEPT
              !.child = Append(@, [pc |-> "cas", i |-> 0, val |-> 0]),
              !.main = IF i + 1 = THREAD_COUNT THEN [pc |-> "wait", i |-> 0]
                       ELSE [pc |-> "fork", i |-> i + 1]]
    /\ UNCHANGED kernel_vars

\* sys_wait_pid(pids[i]) in the second loop: polls until the child is gone
SpinWaitPid ==
    /\ user # <<>> /\ user.main.pc = "wait"
    /\ LET i == user.main.i
       IN /\ user.child[i + 1].pc = "exited"
          /\ user' = [user EXCEPT
                 !.main = IF i + 1 = THREAD_COUNT THEN [pc |-> "check", i |-> 0]
                          ELSE [pc |-> "wait", i |-> i + 1]]
    /\ UNCHANGED kernel_vars

\* the final read of COUNTER
SpinCheck ==
    /\ user # <<>> /\ user.main.pc = "check"
    /\ user' = [user EXCEPT !.main.pc = "done"]
    /\ UNCHANGED kernel_vars

\* SpinLock::acquire, the compare_exchange of the outer loop
SpinAcquire(c) ==
    /\ user.child[c].pc = "cas"
    /\ LET r == compare_exchange(user.bolt, FALSE, TRUE)
       IN user' = [user EXCEPT !.bolt = r.bolt,
                               !.child[c].pc = IF r.ok THEN "read" ELSE "load"]
    /\ UNCHANGED kernel_vars

\* SpinLock::acquire, the load of the inner loop
SpinLoad(c) ==
    /\ user.child[c].pc = "load"
    /\ user' = [user EXCEPT !.child[c].pc = IF user.bolt THEN "load" ELSE "cas"]
    /\ UNCHANGED kernel_vars

\* inc_counter: let mut val = COUNTER
IncRead(c) ==
    /\ user.child[c].pc = "read"
    /\ user' = [user EXCEPT !.child[c].val = user.COUNTER,
                            !.child[c].pc = "add"]
    /\ UNCHANGED kernel_vars

\* inc_counter: val += 1
IncAdd(c) ==
    /\ user.child[c].pc = "add"
    /\ user' = [user EXCEPT !.child[c].val = @ + 1, !.child[c].pc = "write"]
    /\ UNCHANGED kernel_vars

\* inc_counter: COUNTER = val
IncWrite(c) ==
    /\ user.child[c].pc = "write"
    /\ user' = [user EXCEPT !.COUNTER = user.child[c].val,
                            !.child[c].pc = "release"]
    /\ UNCHANGED kernel_vars

\* SpinLock::release and the end of one round of do_counter_inc_spin
SpinRelease(c) ==
    /\ user.child[c].pc = "release"
    /\ user' = [user EXCEPT
           !.bolt = FALSE,
           !.child[c].i = @ + 1,
           !.child[c].pc = IF user.child[c].i + 1 = Increments THEN "exit"
                           ELSE "cas"]
    /\ UNCHANGED kernel_vars

\* sys_exit(0)
SpinExit(c) ==
    /\ user.child[c].pc = "exit"
    /\ user' = [user EXCEPT !.child[c].pc = "exited"]
    /\ UNCHANGED kernel_vars

NextSpin ==
    \/ TestSpin
    \/ SpinFork
    \/ SpinWaitPid
    \/ SpinCheck
    \/ \E c \in 1..THREAD_COUNT :
          /\ user # <<>>
          /\ c \in Children
          /\ \/ SpinAcquire(c)
             \/ SpinLoad(c)
             \/ IncRead(c)
             \/ IncAdd(c)
             \/ IncWrite(c)
             \/ SpinRelease(c)
             \/ SpinExit(c)

SpecSpin == Init /\ [][NextSpin]_vars

(* ------------------------------- C28 ----------------------------------- *)
\* between a successful acquire and the release
InCritical(c) == user.child[c].pc \in {"read", "add", "write", "release"}

\* C28: at every state of the counter program at most one child is between
\* acquire and release, the lock is held exactly while one is, and once all
\* THREAD_COUNT children have exited (so whenever the parent reads the
\* counter after its waits) COUNTER = THREAD_COUNT * Increments.
C28_SpinLockExcludes ==
    user # <<>> =>
       /\ Cardinality({c \in Children : InCritical(c)}) <= 1
       /\ user.bolt = (\E c \in Children : InCritical(c))
       /\ (/\ Len(user.child) = THREAD_COUNT
           /\ \A c \in Children : user.child[c].pc = "exited")
             => user.COUNTER = THREAD_COUNT * Increments
       /\ user.main.pc \in {"check", "done"}
             => user.COUNTER = THREAD_COUNT * Increments

\* one child is about to write its increment while another spins on the
\* held lock and the parent is already polling in its waits
C28_Witness ==
    /\ user # <<>>
    /\ user.main.pc = "wait"
    /\ user.COUNTER > 0
    /\ \E a, b \in Children :
          /\ a # b
          /\ user.child[a].pc = "write"
          /\ user.child[b].pc = "load"

(* ======================================================================= *)
(* The message-queue program (0x07 app mq) run on this kernel: main        *)
(* creates the four semaphores, forks PRODUCER_COUNT producers and         *)
(* CONSUMER_COUNT consumers that share its memory and semaphores, and      *)
(* reads QUEUE_SIZE once sys_wait_pid has seen them all dead.  A process's *)
(* position is its rip; a call and its trap are one step, and so is each   *)
(* access to the statics.  `user` holds the statics and each child's local *)
(* copy of QUEUE_SIZE.                                                     *)
(* ======================================================================= *)
\* QUEUE_CAPACITY (16), PRODUCER_COUNT = CONSUMER_COUNT (8), MESSAGE_COUNT (10)
QUEUE_CAPACITY == 2
PRODUCER_COUNT == 1
CONSUMER_COUNT == PRODUCER_COUNT
MESSAGE_COUNT == 3
MaxMqSteps == 120
MaxMqTicks == 1
MaxIdleTicks == 12

MUTEX_SEM_KEY == 4096
EMPTY_SEM_KEY == 4097
FILLED_SEM_KEY == 4098
PRINT_MUTEX_KEY == 4099

\* main: positions 0..3 are the four init calls, ForkAt the two fork loops
\* and the wait loop, then the read of QUEUE_SIZE and the four removes
ForkAt == 4
MqChildren == (AppPid + 1)..(AppPid + PRODUCER_COUNT + CONSUMER_COUNT)
IsProducer(p) == p \in MqChildren /\ p <= AppPid + PRODUCER_COUNT
IsConsumer(p) == p \in MqChildren /\ p > AppPid + PRODUCER_COUNT

\* a child's position in producer()/consumer(): 0, 1 the opening
\* safe_print; then 9 steps a round; then the closing safe_print and exit
StepsPerRound == 9
LoopEnd == 2 + StepsPerRound * MESSAGE_COUNT
At(p) == Regs(p).rip - ForkAt
InLoop(k) == 2 <= k /\ k < LoopEnd
RoundOf(k) == (k - 2) \div StepsPerRound
StepOf(k) == (k - 2) % StepsPerRound

\* the semaphore a child waits for at position k (None: no wait there)
WaitKey(p, k) ==
    IF k = 0 \/ k = LoopEnd THEN Some(PRINT_MUTEX_KEY)
    ELSE IF ~InLoop(k) THEN None
    ELSE IF StepOf(k) = 0
         THEN Some(IF IsProducer(p) THEN EMPTY_SEM_KEY ELSE FILLED_SEM_KEY)
    ELSE IF StepOf(k) = 1 THEN Some(MUTEX_SEM_KEY)
    ELSE IF StepOf(k) = 5 THEN Some(PRINT_MUTEX_KEY)
    ELSE None

\* the semaphore a child signals at position k
SignalKey(p, k) ==
    IF k = 1 \/ k = LoopEnd + 1 THEN Some(PRINT_MUTEX_KEY)
    ELSE IF ~InLoop(k) THEN None
    ELSE IF StepOf(k) = 6 THEN Some(PRINT_MUTEX_KEY)
    ELSE IF StepOf(k) = 7 THEN Some(MUTEX_SEM_KEY)
    ELSE IF StepOf(k) = 8
         THEN Some(IF IsProducer(p) THEN FILLED_SEM_KEY ELSE EMPTY_SEM_KEY)
    ELSE None

\* the kernel state and the program's memory at the end of a step
CommitMq(m, u) ==
    /\ CommitKernel(m, MaxMqSteps)
    /\ user' = u
    /\ UNCHANGED <<vms, tables, rsp, heap_ends>>

\* the running process moves to its next statement without a trap
Advance == [Cur EXCEPT !.context.rip = @ + 1]

\* the timer interrupt, at most MaxMqTicks preemptions of each producer
\* and consumer and MaxIdleTicks of each of the two processes that only
\* wait: the kernel's idle process and main polling in sys_wait_pid
MqTick ==
    /\ machine = "running"
    /\ processes[current_pid].ticks_passed <
          (IF current_pid \in MqChildren THEN MaxMqTicks ELSE MaxIdleTicks)
    /\ \E hltWakes \in BOOLEAN : CommitMq(switch(Cur, hltWakes), user)

\* the kernel starts the program: its statics are zero
MqStart ==
    /\ OnCpu
    /\ current_pid = KERNEL_PID
    /\ next_pid = FirstPid
    /\ CommitMq(spawn_process(Trap(SYS_SPAWN), TRUE),
                [QUEUE |-> [i \in 0..(QUEUE_CAPACITY - 1) |-> 0],
                 QUEUE_HEAD |-> 0, QUEUE_TAIL |-> 0, QUEUE_SIZE |-> 0,
                 queue_size |-> [p \in MqChildren |-> 0],
                 message |-> [p \in MqChildren |-> 0]])

\* MUTEX_SEM.init(1), EMPTY_SEM.init(QUEUE_CAPACITY), FILLED_SEM.init(0),
\* PRINT_MUTEX.init(1)
MqInit ==
    /\ OnCpu
    /\ current_pid = AppPid
    /\ context.rip < ForkAt
    /\ LET key == MUTEX_SEM_KEY + context.rip
           value == CASE context.rip = 0 -> 1
                      [] context.rip = 1 -> QUEUE_CAPACITY
                      [] context.rip = 2 -> 0
                      [] context.rip = 3 -> 1
       IN CommitMq(new_sem(Frame(SYS_SEM, context.rip + 1), key, value), user)

\* the fork loops: parent and child both return to ForkAt
MqFork ==
    /\ OnCpu
    /\ current_pid = AppPid
    /\ context.rip = ForkAt
    /\ next_pid \in MqChildren
    /\ \E hltWakes \in BOOLEAN :
         CommitMq(sys_fork(Frame(SYS_FORK, ForkAt), hltWakes), user)

\* Semaphore::wait of a child
MqWait ==
    /\ OnCpu
    /\ current_pid \in MqChildren
    /\ WaitKey(current_pid, At(current_pid)) # None
    /\ \E hltWakes \in BOOLEAN :
         CommitMq(sem_wait(Frame(SYS_SEM, context.rip + 1),
                           WaitKey(current_pid, At(current_pid))[1], hltWakes),
                  user)

\* Semaphore::signal of a child
MqSignal ==
    /\ OnCpu
    /\ current_pid \in MqChildren
    /\ SignalKey(current_pid, At(current_pid)) # None
    /\ CommitMq(sem_signal(Frame(SYS_SEM, context.rip + 1),
                           SignalKey(current_pid, At(current_pid))[1]),
                user)

\* producer: QUEUE[QUEUE_TAIL] = message; QUEUE_TAIL = (QUEUE_TAIL + 1) %
\* QUEUE_CAPACITY
MqEnqueue ==
    /\ OnCpu
    /\ IsProducer(current_pid)
    /\ InLoop(At(current_pid)) /\ StepOf(At(current_pid)) = 2
    /\ LET id == current_pid - AppPid - 1
           message == id * 100 + RoundOf(At(current_pid))
       IN CommitMq(Advance,
                   [user EXCEPT !.QUEUE[user.QUEUE_TAIL] = message,
                                !.QUEUE_TAIL = (@ + 1) % QUEUE_CAPACITY])

\* consumer: message = QUEUE[QUEUE_HEAD]; QUEUE_HEAD = (QUEUE_HEAD + 1) %
\* QUEUE_CAPACITY
MqDequeue ==
    /\ OnCpu
    /\ IsConsumer(current_pid)
    /\ InLoop(At(current_pid)) /\ StepOf(At(current_pid)) = 2
    /\ CommitMq(Advance,
                [user EXCEPT !.message[current_pid] = user.QUEUE[user.QUEUE_HEAD],
                             !.QUEUE_HEAD = (@ + 1) % QUEUE_CAPACITY])

\* QUEUE_SIZE += 1 / QUEUE_SIZE -= 1: the load
MqLoadSize ==
    /\ OnCpu
    /\ current_pid \in MqChildren
    /\ InLoop(At(current_pid)) /\ StepOf(At(current_pid)) = 3
    /\ CommitMq(Advance,
                [user EXCEPT !.queue_size[current_pid] = user.QUEUE_SIZE])

\* QUEUE_SIZE += 1 / QUEUE_SIZE -= 1: the store
MqStoreSize ==
    /\ OnCpu
    /\ current_pid \in MqChildren
    /\ InLoop(At(current_pid)) /\ StepOf(At(current_pid)) = 4
    /\ LET old == user.queue_size[current_pid]
           new == IF IsProducer(current_pid) THEN old + 1 ELSE old - 1
       IN CommitMq(Advance,
                   [user EXCEPT !.QUEUE_SIZE = new,
                                !.queue_size[current_pid] = new])

\* sys_exit(0) of a child that has returned from producer()/consumer()
MqExit ==
    /\ OnCpu
    /\ current_pid \in MqChildren
    /\ At(current_pid) = LoopEnd + 2
    /\ \E hltWakes \in BOOLEAN :
         CommitMq(exit(Frame(SYS_EXIT, context.rip), 0, hltWakes), user)

\* every child has been forked and is Dead
AllExited ==
    /\ MqChildren \subseteq Known
    /\ \A p \in MqChildren : StatusOf(p) = "Dead"

\* main, once sys_wait_pid has seen every child dead: the read of
\* QUEUE_SIZE and the four removes
MqRemove ==
    /\ OnCpu
    /\ current_pid = AppPid
    /\ ForkAt <= context.rip /\ context.rip < ForkAt + 4
    /\ AllExited
    /\ CommitMq(remove_sem(Frame(SYS_SEM, context.rip + 1),
                           MUTEX_SEM_KEY + (context.rip - ForkAt)), user)

NextMq ==
    \/ MqTick
    \/ MqStart
    \/ MqInit
    \/ MqFork
    \/ MqWait
    \/ MqSignal
    \/ MqEnqueue
    \/ MqDequeue
    \/ MqLoadSize
    \/ MqStoreSize
    \/ MqExit
    \/ MqRemove

SpecMq == Init /\ [][NextMq]_vars

(* ------------------------------- C29 ----------------------------------- *)
\* C29: at every state of the message-queue program the number of queued
\* messages QUEUE_SIZE is between 0 and QUEUE_CAPACITY, and once every
\* producer and consumer has exited it is 0.
C29_QueueWithinCapacity ==
    user # <<>> =>
       /\ 0 <= user.QUEUE_SIZE
       /\ user.QUEUE_SIZE <= QUEUE_CAPACITY
       /\ AllExited => user.QUEUE_SIZE = 0

\* all producers and consumers have exited after handling their messages
\* (the last message consumed is the last one produced) and main has
\* removed its semaphores
C29_Witness ==
    /\ user # <<>>
    /\ AllExited
    /\ user.QUEUE_SIZE = 0
    /\ \E p \in MqChildren :
          /\ IsConsumer(p)
          /\ user.message[p] = MESSAGE_COUNT - 1
    /\ Regs(AppPid).rip = ForkAt + 4

(* ======================================================================= *)
(* The user-space allocator (0x07 lib allocator/brk.rs): a LockedHeap of   *)
(* the linked_list_allocator crate over the region obtained with brk.      *)
(* Sizes and addresses are in units of EXTEND_SIZE.  The crate's hole list *)
(* is the set of free addresses it denotes: alloc takes the first fit in   *)
(* address order, dealloc gives the block back, and Heap::init(bottom,     *)
(* size) makes the list the single hole [bottom, bottom + size).           *)
(* ======================================================================= *)
\* INITIAL_HEAP_SIZE (8 KiB), EXTEND_SIZE (4 KiB), MAX_HEAP_SIZE (8 MiB)
EXTEND_SIZE == 1
INITIAL_HEAP_SIZE == 2
MAX_HEAP_SIZE == 4
\* the sizes of the layouts asked for, and the most blocks held at once
LayoutSizes == {1, 2}
MaxLive == 3

Span(ptr, size) == ptr..(ptr + size - 1)

\* Heap::init(bottom, size)
LockedHeapInit(bottom, size) == Span(bottom, size)

\* Heap::allocate_first_fit: None for the null pointer
LockedHeapAlloc(holes, size) ==
    LET fits == {p \in holes : Span(p, size) \subseteq holes}
    IN IF fits = {} THEN [ptr |-> None, holes |-> holes]
       ELSE LET ptr == CHOOSE p \in fits : \A q \in fits : p <= q
            IN [ptr |-> Some(ptr), holes |-> holes \ Span(ptr, size)]

\* Heap::deallocate
LockedHeapDealloc(holes, ptr, size) == holes \cup Span(ptr, size)

\* BrkAllocator::init, the kernel granting the first brk (a refusal panics
\* in `expect` before the heap is used)
BrkAllocatorInit ==
    [allocator |-> LockedHeapInit(HEAP_START, INITIAL_HEAP_SIZE),
     current_size |-> INITIAL_HEAP_SIZE,
     live |-> <<>>,
     ptr |-> None]

\* BrkAllocator::extend.  brk: whether sys_brk(Some(new_end)) returns
\* new_end
BrkAllocatorExtend(a, brk) ==
    LET current_size == a.current_size
        new_size == IF current_size + EXTEND_SIZE <= MAX_HEAP_SIZE
                    THEN current_size + EXTEND_SIZE ELSE MAX_HEAP_SIZE
        heap_start == HEAP_START
    IN IF current_size >= MAX_HEAP_SIZE \/ new_size = current_size
       THEN [ok |-> FALSE, a |-> a]
       ELSE IF brk
            THEN [ok |-> TRUE,
                  a |-> [a EXCEPT !.allocator = LockedHeapInit(heap_start, new_size),
                                  !.current_size = new_size]]
            ELSE [ok |-> FALSE, a |-> a]

\* GlobalAlloc::alloc: try, and on a null pointer extend and try once more
BrkAllocatorAlloc(a, size, brk) ==
    LET first == LockedHeapAlloc(a.allocator, size)
    IN IF first.ptr # None
       THEN [a EXCEPT !.allocator = first.holes, !.ptr = first.ptr]
       ELSE LET e == BrkAllocatorExtend(a, brk)
            IN IF e.ok
               THEN LET second == LockedHeapAlloc(e.a.allocator, size)
                    IN [e.a EXCEPT !.allocator = second.holes, !.ptr = second.ptr]
               ELSE [e.a EXCEPT !.ptr = None]

\* GlobalAlloc::dealloc
BrkAllocatorDealloc(a, ptr, size) ==
    [a EXCEPT !.allocator = LockedHeapDealloc(@, ptr, size)]

\* lib's init() at the start of the program
AllocInit ==
    /\ user = <<>>
    /\ user' = BrkAllocatorInit
    /\ UNCHANGED kernel_vars

\* the program allocates: a block that was returned is held until freed
Alloc ==
    /\ user # <<>>
    /\ Len(user.live) < MaxLive
    /\ \E size \in LayoutSizes, brk \in BOOLEAN :
         LET a == BrkAllocatorAlloc(user, size, brk)
         IN user' = IF a.ptr = None THEN a
                    ELSE [a EXCEPT !.live = Append(@, [ptr |-> a.ptr[1],
                                                       size |-> size])]
    /\ UNCHANGED kernel_vars

\* the program frees one of the blocks it holds
Dealloc ==
    /\ user # <<>>
    /\ \E i \in DOMAIN user.live :
         LET b == user.live[i]
             a == BrkAllocatorDealloc(user, b.ptr, b.size)
         IN user' = [a EXCEPT !.live = SubSeq(@, 1, i - 1) \o
                                       SubSeq(@, i + 1, Len(@)),
                              !.ptr = None]
    /\ UNCHANGED kernel_vars

NextAlloc ==
    \/ AllocInit
    \/ Alloc
    \/ Dealloc

SpecAlloc == Init /\ [][NextAlloc]_vars

TickModulus == 2
MaxFairSteps == 4

\* ticks_passed += 1 at the width TickModulus
WrapTicks(m) ==
    [m EXCEPT !.processes =
        [p \in DOMAIN m.processes |->
            [m.processes[p] EXCEPT !.ticks_passed = @ % TickModulus]]]

\* the timer interrupt: it comes again and again
FairTick ==
    /\ machine = "running"
    /\ \E m \in {WrapTicks(switch(Cur, hltWakes)) : hltWakes \in BOOLEAN} :
            /\ processes' = m.processes
            /\ ready_queue' = m.ready_queue
            /\ wait_queue' = m.wait_queue
            /\ sems' = m.sems
            /\ current_pid' = m.current_pid
            /\ next_pid' = m.next_pid
            /\ context' = m.context
            /\ machine' = m.machine
    /\ UNCHANGED <<steps, vms, tables, rsp, heap_ends, user>>

\* the services processes call between ticks
FairService ==
    /\ steps < MaxFairSteps
    /\ \/ Spawn
       \/ SysFork
       \/ SemNew
       \/ SemRemove
       \/ SemSignal
       \/ SemWait
       \/ WaitPid
       \/ Exit
       \/ ProcessExit

NextFair ==
    \/ FairTick
    \/ FairService

\* ENABLED <<FairTick>>_vars: the timer can tick exactly while the machine
\* runs, and a tick always changes the state
TickEnabled == machine = "running"

\* WF_vars(FairTick) with its ENABLED written out as TickEnabled
FairTicks == []<>(~TickEnabled) \/ []<><<FairTick>>_vars

SpecFair == Init /\ [][NextFair]_vars /\ FairTicks

(* ------------------------------- C31 ----------------------------------- *)
\* C31: with the timer ticking for ever, every process that is Ready with
\* its pid in the ready queue is eventually Running, whatever is spawned,
\* forked or woken in the meantime.
C31_ReadyEventuallyRuns ==
    \A p \in Pids :
       (p \in Known /\ IsQueuedReady(p)) ~> (p \in Known /\ StatusOf(p) = "Running")



\* a forked child that was blocked in sem_wait has been woken by a signal
\* and waits in the ready queue while its parent runs
C31_Witness ==
    \E p \in Known :
       /\ p # KERNEL_PID
       /\ IsQueuedReady(p)
       /\ processes[p].context.rax = SYS_SEM
       /\ StatusOf(current_pid) = "Running"

(* ------------------------------- C32 ----------------------------------- *)
\* C32: in every state (each one is the state at the return of a scheduler
\* entry point) every process of the table whose status is Ready has its
\* pid in the ready queue.
C32_ReadyIsQueued ==
    \A p \in Known : StatusOf(p) = "Ready" => p \in Range(ready_queue)

\* two processes are Ready and queued, one of them a waiter that a signal
\* has woken (its saved rax is still the number of the sem call)
C32_Witness ==
    \E p \in Known, q \in Known :
       /\ p # q
       /\ IsQueuedReady(p)
       /\ IsQueuedReady(q)
       /\ p # KERNEL_PID
       /\ processes[p].context.rax = SYS_SEM

(* ------------------------------- C33 ----------------------------------- *)
\* C33: in every state reached by ticks, the syscall services and
\* ProcessManager::block / kill / wake_up, no pid occurs more than once in
\* the ready queue, and the pid of the Running process does not occur in it.
C33_QueuedOnceNotRunning ==
    /\ \A p \in Range(ready_queue) : Count(ready_queue, p) = 1
    /\ \A p \in Known : StatusOf(p) = "Running" => p \notin Range(ready_queue)

(* ------------------------------- C34 ----------------------------------- *)
\* C34: in every state every Blocked process (the programs; the kernel's
\* idle process is left aside) is listed in exactly one wait structure: the
\* wait queue of a semaphore that exists or the wait table entry of some
\* pid.
C34_BlockedIsRecorded ==
    \A p \in Known \ {KERNEL_PID} :
       StatusOf(p) = "Blocked" =>
          Cardinality({<<d, key>> \in {<<d, key>> : d \in DOMAIN sems, key \in SemKeys} :
                          /\ key \in DOMAIN sems[d]
                          /\ p \in Range(sems[d][key].wait_queue)})
          + Cardinality({q \in DOMAIN wait_queue : p \in wait_queue[q]}) = 1

(* ------------------------------- C35 ----------------------------------- *)
\* C35: no signal is lost.  Whenever the current process can signal an
\* existing semaphore, the signal either finds no waiter and raises the count
\* by one, or it takes the head waiter off the wait queue and that process
\* is Ready at the tail of the ready queue when sem_signal returns.
C35_NoSignalLost ==
    OnCpu =>
       \A key \in SemKeys :
          LET m == Trap(SYS_SEM)
              d == DataOf(m)
          IN key \in DOMAIN m.sems[d] =>
                LET sem == m.sems[d][key]
                    m2 == sem_signal(m, key)
                IN IF sem.wait_queue = <<>>
                   THEN m2.sems[d][key].count = sem.count + 1
                   ELSE LET w == Head(sem.wait_queue)
                        IN /\ GetProc(m2, w)
                           /\ m2.processes[w].status = "Ready"
                           /\ m2.ready_queue = Append(m.ready_queue, w)

(* ------------------------------- C36 ----------------------------------- *)
\* C36: whenever the current process calls new_sem with a key that already
\* exists in its semaphore set, the call returns 1 (failure) and the
\* semaphore keeps its count and its wait queue.
C36_NewSemKeepsExisting ==
    OnCpu =>
       \A key \in SemKeys, value \in SemValues :
          LET m == Trap(SYS_SEM)
              d == DataOf(m)
          IN key \in DOMAIN m.sems[d] =>
                LET m2 == new_sem(m, key, value)
                IN /\ m2.context.rax = 1
                   /\ key \in DOMAIN m2.sems[d]
                   /\ m2.sems[d][key] = m.sems[d][key]

(* ------------------------------- C37 ----------------------------------- *)
\* C37: whenever the process on the CPU takes a page fault (not a
\* protection violation) that handle_page_fault reports as handled, the
\* faulting page is mapped in its page table afterwards; equivalently a
\* fault whose page stays unmapped is reported unhandled.
C37_HandledIsMapped ==
    (OnCpu /\ current_pid \in DOMAIN vms) =>
       \A page \in FaultPages, frames \in FrameBudgets :
          LET r == HandlePageFault(CurVm, current_pid, page, frames, FALSE)
              t == r.v.vms[current_pid].page_table
          IN r.ok => page \in DOMAIN r.v.tables[t].pages

(* ------------------------------- C38 ----------------------------------- *)
\* the mapped heap pages of pid are exactly the pages of
\* [base, end rounded up to a page boundary)
HeapExact(v, pid) ==
    LET t == v.vms[pid].page_table
        c == v.vms[pid].heap
    IN v.tables[t].heap = PageRange(HeapPage(HEAP_START), HeapPage(AlignUp(v.ends[c])))

\* C38: the exactness of the heap is kept by every successful brk.  The
\* heap of a process that spawn would create now is exact (no page, end =
\* base), and whenever the process on the CPU has an exact heap, every brk
\* call that succeeds (grow, shrink, full release or query, with any frame
\* supply) leaves it exact.
C38_BrkKeepsHeapExact ==
    /\ (OnCpu /\ next_pid <= MaxVmPid) => HeapExact(SpawnVm(CurVm, next_pid), next_pid)
    /\ UserOnCpu =>
       /\ HeapExact(CurVm, current_pid) =>
             \A addr \in BrkArgs, frames \in FrameBudgets :
                LET r == VmBrkOp(CurVm, current_pid, addr, frames)
                IN r.ret # None => HeapExact(r.v, current_pid)

\* a heap grown to the middle of its second page and exact, from which a
\* shrink, a release and a further growth can succeed
C38_Witness ==
    /\ UserOnCpu
    /\ heap_ends[vms[current_pid].heap] = HEAP_START + PAGE_SIZE + 1
    /\ HeapExact(CurVm, current_pid)
    /\ VmBrkOp(CurVm, current_pid, Some(HEAP_START + 1), 1).ret # None
    /\ VmBrkOp(CurVm, current_pid, Some(HEAP_START), 1).ret # None
    /\ Cardinality({a \in BrkTargets : a > heap_ends[vms[current_pid].heap]
                       /\ VmBrkOp(CurVm, current_pid, Some(a), STACK_MAX_PAGES + 1).ret # None}) > 0

(* ------------------------------- C39 ----------------------------------- *)
\* one round of the loop of the user-level sys_wait_pid: None when the
\* status read is usize::MAX and the loop goes round again, else the status
\* returned `as isize`
sys_wait_pid(m, pid) ==
    LET status == sys_waitpid(m, pid)
    IN IF status = UsizeModulus - 1 THEN None ELSE Some(AsIsize(status))

\* C39: whenever a process has died with exit code E, a round of the
\* polling loop of sys_wait_pid on its pid, by whichever process is on the
\* CPU, leaves the loop and returns E.
C39_PollReturnsExitCode ==
    OnCpu =>
       \A p \in Known :
          (StatusOf(p) = "Dead" /\ processes[p].exit_code # None) =>
             sys_wait_pid(Trap(SYS_WAITPID), p) = Some(processes[p].exit_code[1])

(* ======================================================================= *)
(* The dining-philosophers program (0x06 app dinner) run on this kernel:   *)
(* main creates START_SEM and the chopsticks, forks a philosopher for each *)
(* seat but the last, signals START_SEM once per philosopher and takes the *)
(* last seat itself.  `user` holds the program: the position (rip) of each *)
(* process, the set of processes blocked in a wait, and the semaphores of  *)
(* the set they share.  A call is one step; any process that is not        *)
(* blocked may take the next step, which covers every order in which the   *)
(* scheduler can run them.  The philosophers eat for ever.                 *)
(* ======================================================================= *)
PHILOSOPHER_COUNT == 5
START_SEM_KEY == 5

Seats == 0..(PHILOSOPHER_COUNT - 1)
Philosophers == AppPid..(AppPid + PHILOSOPHER_COUNT - 1)

\* philosopher(i) runs in the i-th forked child, philosopher(COUNT - 1) in main
SeatOf(p) == IF p = AppPid THEN PHILOSOPHER_COUNT - 1 ELSE p - AppPid - 1

\* main: START_SEM.init at rip 0, CHOPSTICKS[i].init at rip 1 + i, the fork
\* loop at DinnerForkAt, then one START_SEM.signal at each of the next
\* PHILOSOPHER_COUNT positions
DinnerForkAt == PHILOSOPHER_COUNT + 1

\* where philosopher() starts in process p
PhilosopherAt(p) ==
    IF p = AppPid THEN DinnerForkAt + PHILOSOPHER_COUNT ELSE DinnerForkAt

\* the position inside philosopher(): 0 START_SEM.wait, 1 and 2 the two
\* chopstick waits, 3 CHOPSTICKS[left].signal, 4 CHOPSTICKS[right].signal
Course(p) == user.rip[p] - PhilosopherAt(p)

Left(id) == id
Right(id) == (id + 1) % PHILOSOPHER_COUNT

\* a faulty philosopher who takes the left chopstick first whatever the seat
FirstChopstickLeft(id) == Left(id)

\* the even seats take the right chopstick first, the odd ones the left
FirstChopstick(id) == IF id % 2 = 0 THEN Right(id) ELSE Left(id)

SecondChopstick(id) == IF FirstChopstick(id) = Left(id) THEN Right(id) ELSE Left(id)

\* process p can take its next step
Awake(p) == user # <<>> /\ p \in DOMAIN user.rip /\ p \notin user.blocked

CommitDinner(u) ==
    /\ user' = u
    /\ UNCHANGED kernel_vars

\* Semaphore::wait by p, which goes on at rip once the wait returns
DinnerSemWait(u, p, key, rip) ==
    LET sem == u.sems[key]
    IN [u EXCEPT !.sems[key] = SemaphoreWait(sem, p),
                 !.blocked = IF SemaphoreWaitResult(sem, p)[1] = "Block"
                             THEN @ \cup {p} ELSE @,
                 !.rip[p] = rip]

\* Semaphore::signal by p: the process popped from the wait queue is woken
DinnerSemSignal(u, p, key, rip) ==
    LET sem == u.sems[key]
        res == SemaphoreSignalResult(sem)
    IN [u EXCEPT !.sems[key] = SemaphoreSignal(sem),
                 !.blocked = IF res[1] = "WakeUp" THEN @ \ {res[2]} ELSE @,
                 !.rip[p] = rip]

\* the kernel starts the program
DinnerStart ==
    /\ user = <<>>
    /\ CommitDinner([rip |-> [p \in {AppPid} |-> 0], blocked |-> {}, sems |-> <<>>])

\* START_SEM.init(0); CHOPSTICKS[i].init(1)
DinnerInit ==
    /\ Awake(AppPid)
    /\ user.rip[AppPid] < DinnerForkAt
    /\ LET rip == user.rip[AppPid]
           key == IF rip = 0 THEN START_SEM_KEY ELSE rip - 1
           value == IF rip = 0 THEN 0 ELSE 1
       IN CommitDinner([user EXCEPT !.sems = SetInsert(@, key, value),
                                    !.rip[AppPid] = rip + 1])

\* the fork loop: the child starts philosopher() with the next seat
DinnerFork ==
    /\ Awake(AppPid)
    /\ user.rip[AppPid] = DinnerForkAt
    /\ LET child == AppPid + Cardinality(DOMAIN user.rip)
       IN /\ child \in Philosophers
          /\ CommitDinner([user EXCEPT !.rip =
                 [p \in DOMAIN user.rip \cup {child} |->
                     IF p = child THEN PhilosopherAt(child) ELSE user.rip[p]]])

\* main, the children forked: START_SEM.signal() PHILOSOPHER_COUNT times
DinnerOpen ==
    /\ Awake(AppPid)
    /\ DinnerForkAt <= user.rip[AppPid] /\ user.rip[AppPid] < PhilosopherAt(AppPid)
    /\ DOMAIN user.rip = Philosophers
    /\ CommitDinner(DinnerSemSignal(user, AppPid, START_SEM_KEY, user.rip[AppPid] + 1))

\* START_SEM.wait() and the two chopstick waits of a philosopher
DinnerWait ==
    \E p \in Philosophers :
       /\ Awake(p)
       /\ Course(p) \in 0..2
       /\ LET id == SeatOf(p)
              key == CASE Course(p) = 0 -> START_SEM_KEY
                       [] Course(p) = 1 -> FirstChopstick(id)
                       [] Course(p) = 2 -> SecondChopstick(id)
          IN CommitDinner(DinnerSemWait(user, p, key, user.rip[p] + 1))

\* the meal is over: CHOPSTICKS[left].signal(); CHOPSTICKS[right].signal()
\* and round the loop again
DinnerSignal ==
    \E p \in Philosophers :
       /\ Awake(p)
       /\ Course(p) \in 3..4
       /\ LET id == SeatOf(p)
              key == IF Course(p) = 3 THEN Left(id) ELSE Right(id)
              next == IF Course(p) = 3 THEN user.rip[p] + 1 ELSE PhilosopherAt(p) + 1
          IN CommitDinner(DinnerSemSignal(user, p, key, next))

NextDinner ==
    \/ DinnerStart
    \/ DinnerInit
    \/ DinnerFork
    \/ DinnerOpen
    \/ DinnerWait
    \/ DinnerSignal

SpecDinner == Init /\ [][NextDinner]_vars

(* ------------------------------- C40 ----------------------------------- *)
\* the philosopher holds both chopsticks: it is past its second wait
Eating(p) == Awake(p) /\ Course(p) \in 3..4

\* the philosopher is blocked in the wait for a chopstick
Hungry(p) ==
    /\ user # <<>>
    /\ p \in user.blocked
    /\ \E key \in Seats : key \in DOMAIN user.sems /\ p \in Range(user.sems[key].wait_queue)

\* the chopstick the philosopher is about to wait for is free
CanTake(p) ==
    /\ Awake(p)
    /\ Course(p) \in 1..2
    /\ LET key == IF Course(p) = 1 THEN FirstChopstick(SeatOf(p))
                  ELSE SecondChopstick(SeatOf(p))
       IN user.sems[key].count > 0

\* C40: the dinner never deadlocks: in every state in which philosophers
\* wait for a chopstick, some philosopher is not blocked and either eats or
\* can take the chopstick it is about to wait for.
C40_DinnerNeverDeadlocks ==
    (\E p \in Philosophers : Hungry(p)) =>
       \E q \in Philosophers : Eating(q) \/ CanTake(q)

\* every philosopher but one waits for a chopstick while the last one eats
C40_Witness ==
    /\ Cardinality({p \in Philosophers : Hungry(p)}) = PHILOSOPHER_COUNT - 1
    /\ \E q \in Philosophers : Eating(q)
====
